---- MODULE Spec2Model ----
\* Agent-loop orchestration core of upcore-agent: the runAgent turn loop
\* (server/src/agent.ts, the phase/checkpoint revision), its stream decoder,
\* and the WebSocket session that drives it (server/src/index.ts).
EXTENDS Integers, Sequences, FiniteSets, TLC

\* ───────────────────────── program constants ─────────────────────────
TOKEN_WARN_THRESHOLD == 90000
TOKEN_CUTOFF_THRESHOLD == 110000
MAX_TURNS_PER_PHASE == 12
WS_MESSAGE_LIMIT == 10
WS_MESSAGE_WINDOW_MS == 60000
TG_MESSAGE_LIMIT == 10
TG_MESSAGE_WINDOW_MS == 60000
EDIT_INTERVAL_MS == 1500
TELEGRAM_MAX_CHARS == 4096
LAST_RESULT_SHOWN == 300
PREVIEW_LEN == 500

\* ───────────────────────── JSON.parse on a small alphabet ─────────────
\* A JavaScript string is a sequence of one-character strings.  The texts
\* the model handles are objects, strings and numbers over the characters
\* { } " : , 1 a and blank.

Q == "\""

\* a parsed JSON value: t is the tag, n the number, s the string, m the
\* members of an object as a sequence of <<key, value>> pairs
JNum(n) == [t |-> "num", n |-> n, s |-> <<>>, m |-> <<>>]
JStr(s) == [t |-> "str", n |-> 0, s |-> s, m |-> <<>>]
JObj(m) == [t |-> "obj", n |-> 0, s |-> <<>>, m |-> m]
EmptyObject == JObj(<<>>)

ParseFail == [ok |-> FALSE, val |-> EmptyObject, pos |-> 0]
ParseOk(v, p) == [ok |-> TRUE, val |-> v, pos |-> p]

RECURSIVE SkipWs(_, _)
SkipWs(s, i) == IF i <= Len(s) /\ s[i] = " " THEN SkipWs(s, i + 1) ELSE i

RECURSIVE FindQuote(_, _)
FindQuote(s, i) ==
  IF i > Len(s) THEN 0 ELSE IF s[i] = Q THEN i ELSE FindQuote(s, i + 1)

RECURSIVE DigitsEnd(_, _)
DigitsEnd(s, i) == IF i <= Len(s) /\ s[i] = "1" THEN DigitsEnd(s, i + 1) ELSE i

RECURSIVE Ones(_)
Ones(k) == IF k = 0 THEN 0 ELSE 10 * Ones(k - 1) + 1

ParseString(s, i) ==
  IF i > Len(s) \/ s[i] # Q THEN ParseFail
  ELSE LET j == FindQuote(s, i + 1)
       IN IF j = 0 THEN ParseFail ELSE ParseOk(JStr(SubSeq(s, i + 1, j - 1)), j + 1)

ParseNumber(s, i) ==
  LET j == DigitsEnd(s, i) IN IF j = i THEN ParseFail ELSE ParseOk(JNum(Ones(j - i)), j)

\* an object assignment: a repeated key keeps its place and takes the new value
PutMember(m, k, v) ==
  IF \E x \in 1..Len(m) : m[x][1] = k
  THEN [x \in 1..Len(m) |-> IF m[x][1] = k THEN <<k, v>> ELSE m[x]]
  ELSE Append(m, <<k, v>>)

RECURSIVE ParseValue(_, _)
RECURSIVE ParseMembers(_, _, _)

ParseObject(s, i) ==
  LET j == SkipWs(s, i + 1)
  IN IF j > Len(s) THEN ParseFail
     ELSE IF s[j] = "}" THEN ParseOk(EmptyObject, j + 1)
     ELSE ParseMembers(s, j, <<>>)

ParseMembers(s, i, acc) ==
  LET k == ParseString(s, i)
  IN IF ~k.ok THEN ParseFail
     ELSE LET c == SkipWs(s, k.pos)
          IN IF c > Len(s) \/ s[c] # ":" THEN ParseFail
             ELSE LET v == ParseValue(s, SkipWs(s, c + 1))
                  IN IF ~v.ok THEN ParseFail
                     ELSE LET e == SkipWs(s, v.pos)
                              m == PutMember(acc, k.val.s, v.val)
                          IN IF e > Len(s) THEN ParseFail
                             ELSE IF s[e] = "}" THEN ParseOk(JObj(m), e + 1)
                             ELSE IF s[e] = "," THEN ParseMembers(s, SkipWs(s, e + 1), m)
                             ELSE ParseFail

ParseValue(s, i) ==
  IF i > Len(s) THEN ParseFail
  ELSE IF s[i] = "{" THEN ParseObject(s, i)
  ELSE IF s[i] = Q THEN ParseString(s, i)
  ELSE IF s[i] = "1" THEN ParseNumber(s, i)
  ELSE ParseFail

ParseText(s) ==
  LET r == ParseValue(s, SkipWs(s, 1))
  IN IF r.ok /\ SkipWs(s, r.pos) = Len(s) + 1 THEN r ELSE ParseFail

\* the input texts the provider sends, whole and in pieces
J_OPEN == <<"{", Q, "a">>
J_CLOSE == <<Q, ":", "1", "}">>
J_CUT == <<Q, ":", "1">>
JsonTexts ==
  { <<"{", "}">>,
    <<"{", " ", "}">>,
    <<"{", Q, "a", Q, ":", "1", "}">>,
    <<"{", Q, "a", Q, ":", Q, "a", Q, "}">>,
    <<"{", Q, "a", Q, ":", "1", ",", Q, "a", Q, ":", "1", "1", "}">>,
    <<"{", Q, "a", Q, ":", "{", Q, "1", Q, ":", "1", "}", "}">>,
    <<"1", "1">>,
    <<"{", Q, "a", Q, ":", "1">>,
    <<"{", Q, "a">>,
    <<"}", "{">> }

\* the parses of these texts, computed once
ParsedTexts == [s \in JsonTexts \cup {J_OPEN \o J_CLOSE, J_OPEN \o J_CUT} |-> ParseText(s)]

\* JSON.parse(text): ok = FALSE stands for the SyntaxError it throws
JSONParse(s) == IF s \in DOMAIN ParsedTexts THEN ParsedTexts[s] ELSE ParseText(s)


\* ───────────────────────── bounds of the model ────────────────────────
MaxMsgs == 1        \* user messages (runAgent invocations) per connection
MaxCalls == 12      \* model calls per connection
MaxRichTurns == 1   \* model calls per connection answered from RichResponses
RichWindow == 2     \* the last calls of a phase that RichResponses may answer
MaxBeats == 1       \* heartbeat ticks per invocation
MaxFragments == 3   \* input-delta fragments of one tool invocation (decoder)
MaxWsMsgs == 2      \* WebSocket messages received per connection
MaxAdvances == 0    \* WebSocket messages that arrive a window later than the one before
SessMsgs == 2       \* user messages of the session with overlapping turns
SessWsMsgs == 3     \* WebSocket messages of that session
SessCalls == 1      \* model calls of that session answered other than by a final answer
LimMsgs == 1        \* user messages of the session whose limiter is near its ceiling
LimAttempts == 2    \* WebSocket messages or Telegram updates of that session
LimAdvances == 1    \* attempts of that session that arrive a window, or more, late
MaxSaves == 2       \* calls of save_checkpoint
IsoMsgs == 1        \* user messages of the first of two connections
IsoFrames == 2      \* WebSocket messages of each of two connections
IsoCalls == 1       \* model calls of two connections answered other than by a final answer
MaxAppends == 3      \* events the handler passes to one TelegramMessageWriter
MaxTicks == 1        \* times the clock advances while one writer is in use
MaxFinalize == 1     \* calls of finalize on one writer
MaxFails == 2        \* Telegram calls of a writer that fail for another reason than unchanged content
FaultAppends == 2    \* events the handler passes to the writer whose Telegram calls may fail
MaxRouteFrags == 2   \* input-delta fragments of each of two invocations open together
ClientMsgs == 1         \* messages the user of the web client sends
ClientFrames == 3       \* frames of the web client the server handles
ClientCalls == 1        \* model calls of the web client's turns before final answers
MaxOutbox == 2          \* frames of the web client under way to the server

InvIds == 1..MaxMsgs
SessIds == 1..SessMsgs
\* the invocations any of the sessions below can make
LimIds == 1..LimMsgs
AllIds == InvIds \cup SessIds \cup LimIds

\* ───────────────────────── values ──────────────────────────────────────
\* a text: what it says (tag) and how many characters it has
Text(tag, len) == [tag |-> tag, len |-> len]
NoText == Text("", 0)

\* String.prototype.slice(0, n)
Slice(t, n) == [t EXCEPT !.len = IF t.len < n THEN t.len ELSE n]

\* content blocks of a message (text, image, tool_use, tool_result)
Block(type, id, name, input, text, raw) ==
  [type |-> type, id |-> id, name |-> name, input |-> input, text |-> text, raw |-> raw]
TextBlock(t) == Block("text", 0, "", EmptyObject, t, <<>>)
ImageBlock == Block("image", 0, "", EmptyObject, NoText, <<>>)
ToolUseBlock(id, name, input, raw) == Block("tool_use", id, name, input, NoText, raw)
ToolResultBlock(id, t) == Block("tool_result", id, "", EmptyObject, t, <<>>)

\* MessageParam: content is either a string (str) or an array of blocks
Msg(role, str, blocks) == [role |-> role, str |-> str, blocks |-> blocks]

\* AgentEvent; id is the invocation id of the tool the event is about
Ev(type, tool, id, text) == [type |-> type, tool |-> tool, id |-> id, text |-> text]
TerminalTypes == {"complete", "needs_continue", "error"}
IsTerminal(e) == e.type \in TerminalTypes

\* TOOL_HANDLERS
KnownTools == {"read_file", "search_code", "list_files", "get_context", "read_repo_file",
               "write_file", "run_command", "git_push", "save_checkpoint",
               "load_checkpoint", "clear_checkpoint"}
HasHandler(name) == name \in KnownTools

\* ───────────────────────── the model provider ─────────────────────────
FragsValid == <<J_OPEN, J_CLOSE>>        \* {"a":1}
FragsTruncated == <<J_OPEN, J_CUT>>      \* {"a":1   cut off by the provider
FragsNone == <<>>                        \* a tool without arguments

RECURSIVE Concat(_)
Concat(ss) == IF ss = <<>> THEN <<>> ELSE Head(ss) \o Concat(Tail(ss))

\* The input the SDK's finalMessage() carries for a tool_use block: the parse
\* of the text it received; for a text that is not JSON the SDK's lenient
\* parser yields what it could read, which this program does not control.
SdkInputs(raw) ==
  IF raw = <<>> THEN {EmptyObject}
  ELSE IF JSONParse(raw).ok THEN {JSONParse(raw).val}
  ELSE {EmptyObject, JObj(<< << <<"a">>, JNum(1) >> >>)}

\* one content block as the provider produces it
RText == [type |-> "text", name |-> "", chunks |-> <<Text("t", 1)>>, frags |-> <<>>]
RTool(name, frags) == [type |-> "tool_use", name |-> name, chunks |-> <<>>, frags |-> frags]

Resp(blocks, stop, tokens, hasStop) ==
  [blocks |-> blocks, stop_reason |-> stop, input_tokens |-> tokens, hasStop |-> hasStop]

\* the everyday responses: one tool call with well-formed input, or a final answer
FinalAnswer == Resp(<<RText>>, "end_turn", 1000, TRUE)
PlainResponses ==
  { Resp(<<RTool("read_file", <<J_OPEN \o J_CLOSE>>)>>, "tool_use", 1000, TRUE),
    FinalAnswer }

B_TWO == <<RTool("read_file", FragsValid), RTool("run_command", FragsNone)>>
B_CUT == <<RTool("write_file", FragsTruncated), RText, RTool("read_file", FragsValid)>>
B_UNKNOWN == <<RTool("no_such_tool", FragsValid), RTool("read_file", FragsTruncated)>>

\* the responses that exercise the rest: batches of tools, input that is
\* not JSON, unknown tools, large token counts, other stop reasons, and a
\* stream that ends without message_stop
RichResponses ==
  { Resp(B_TWO, "tool_use", 1000, TRUE),
    Resp(B_CUT, "tool_use", 1000, TRUE),
    Resp(B_UNKNOWN, "tool_use", 1000, TRUE),
    Resp(B_TWO, "tool_use", 109500, TRUE),
    Resp(B_TWO, "tool_use", 120000, TRUE),
    Resp(<<RText>>, "end_turn", 120000, TRUE),
    Resp(B_CUT, "max_tokens", 1000, TRUE),
    Resp(B_TWO, "tool_use", 1000, FALSE) }

\* stream events
SEv(type, btype, id, name, text, pj) ==
  [type |-> type, btype |-> btype, id |-> id, name |-> name, text |-> text, partial_json |-> pj]

BlockId(turn, k) == 10 * turn + k

BlockEvents(b, id) ==
  <<SEv("content_block_start", b.type, id, b.name, NoText, <<>>)>>
  \o [c \in 1..Len(b.chunks) |-> SEv("content_block_delta", "text_delta", id, "", b.chunks[c], <<>>)]
  \o [f \in 1..Len(b.frags) |-> SEv("content_block_delta", "input_json_delta", id, "", NoText, b.frags[f])]
  \o <<SEv("content_block_stop", b.type, id, "", NoText, <<>>)>>

RECURSIVE BlocksEvents(_, _, _)
BlocksEvents(blocks, turn, k) ==
  IF k > Len(blocks) THEN <<>>
  ELSE BlockEvents(blocks[k], BlockId(turn, k)) \o BlocksEvents(blocks, turn, k + 1)

StreamOf(resp, turn) ==
  BlocksEvents(resp.blocks, turn, 1)
  \o (IF resp.hasStop THEN <<SEv("message_stop", "", 0, "", NoText, <<>>)>> ELSE <<>>)

\* the sets of messages stream.finalMessage() can resolve to for a response
FinalMsg(content, stop, tokens) ==
  [content |-> content, stop_reason |-> stop, input_tokens |-> tokens]
NoFinal == FinalMsg(<<>>, "", 0)

RECURSIVE FinalContents(_, _, _)
FinalContents(blocks, turn, k) ==
  IF k > Len(blocks) THEN {<<>>}
  ELSE LET b == blocks[k]
           heads == IF b.type = "text" THEN {TextBlock(b.chunks[1])}
                    ELSE {ToolUseBlock(BlockId(turn, k), b.name, in, Concat(b.frags)) :
                            in \in SdkInputs(Concat(b.frags))}
       IN {<<h>> \o t : h \in heads, t \in FinalContents(blocks, turn, k + 1)}

FinalMsgs(resp, turn) ==
  {FinalMsg(c, resp.stop_reason, resp.input_tokens) : c \in FinalContents(resp.blocks, turn, 1)}

\* ───────────────────────── state ──────────────────────────────────────
VARIABLES
  inv,      \* inv[i]: the locals and the position of the i-th runAgent invocation
  aborted,  \* aborted[i]: the signal of the AbortController made for invocation i
  state,    \* the ConnectionState of the WebSocket connection
  wsOpen,   \* ws.readyState = WebSocket.OPEN
  sent,     \* sent[i]: the event types ws.send has delivered to the client for
            \* invocation i, in order; sent[0]: the errors of the message handler
  now,      \* Date.now() at the latest WebSocket event
  started,  \* number of runAgent invocations made so far
  budget    \* what the environment may still do: user messages (msgs), WebSocket
            \* messages (ws), Telegram updates (tg), model calls (calls), model calls answered from
            \* the menu (rich) in the last turns of a phase (window), messages
            \* arriving a window late (clock), WebSocket messages of the second
            \* connection (peer)
VARIABLE
  checkpoint \* the checkpoint file (file), the arguments of the save that wrote
             \* it (saved), what the latest checkpoint tool returned (returned)
             \* and the number of saves so far (saves)

VARIABLE
  peer       \* a second WebSocket connection: its ConnectionState (state), what
             \* ws.send has delivered on it (sent) and its readyState (open)
VARIABLE
  writer     \* the TelegramMessageWriter of one handled message
VARIABLE
  client     \* the web client of the connection (useAgent): isStreaming, the
             \* pending auto-continue timeouts, the inactivity timer, the frames
             \* it has sent that the server has not handled yet (outbox), and
             \* how many events of sent[i] its onmessage has handled (read)

vars ==
  <<inv, aborted, state, wsOpen, sent, now, started, budget, checkpoint, peer, writer, client>>

IdleInv ==
  [pc |-> "idle", messages |-> <<>>, turns |-> 0, cumulativeInputTokens |-> 0,
   resp |-> Resp(<<>>, "", 0, FALSE), rich |-> FALSE, stream |-> <<>>,
   toolUseBlocks |-> <<>>, assistantContent |-> <<>>, blockIdx |-> 0, toolResults |-> <<>>,
   heartbeatInterval |-> FALSE, beats |-> 0, handlerInput |-> EmptyObject,
   inflight |-> {}, calls |-> <<>>, settled |-> <<>>, events |-> <<>>, result |-> <<>>,
   base |-> 0, signal |-> 0, caller |-> "ws", error |-> <<>>, text |-> NoText]

NewState == [messageCount |-> 0, windowStart |-> 0, abortController |-> 0,
             conversationHistory |-> <<>>]

\* no second connection
NoPeer == [state |-> NewState, sent |-> [i \in {0} \cup AllIds |-> <<>>], open |-> FALSE]

\* the ConnectionState, the transport and the readyState of the connection
\* the handler that made invocation i belongs to
StateOf(i) == IF inv[i].caller = "peer" THEN peer.state ELSE state
SentOf(i) == IF inv[i].caller = "peer" THEN peer.sent ELSE sent
OpenOf(caller) == IF caller = "peer" THEN peer.open ELSE wsOpen

\* the hook before it is used; attached says that the frames of the
\* connection are those this client sends
NewClient ==
  [attached |-> FALSE, isStreaming |-> FALSE, timers |-> 0, inactivityTimer |-> FALSE,
   cancelled |-> FALSE, read |-> [i \in {0} \cup AllIds |-> 0], outbox |-> <<>>,
   last |-> "new"]

\* the frame the handler is called with is the oldest one the client sent
Taken(type) ==
  IF client.attached
  THEN /\ client.outbox # <<>> /\ Head(client.outbox) = type
       /\ client' = [client EXCEPT !.outbox = Tail(@), !.last = "handled"]
  ELSE UNCHANGED client

\* variant: one ConnectionState and one socket for every connection
StoreShared(caller, st, snt) == state' = st /\ sent' = snt /\ UNCHANGED peer

\* state and ws are locals of the connection callback: a handler writes
\* the ones of its own connection
Store(caller, st, snt) ==
  IF caller = "peer"
  THEN peer' = [peer EXCEPT !.state = st, !.sent = snt] /\ UNCHANGED <<state, sent>>
  ELSE state' = st /\ sent' = snt /\ UNCHANGED peer

\* ───────────────────────── the text of a TelegramMessageWriter ──────
\* The buffer is written as the pieces it was appended in: a chunk of text
\* of len characters, or the marker of a tool. A stretch of it (a page, the
\* content of a message) is a sequence of runs: characters from..to-1 of
\* piece item, in the rendering kind that piece had when it was read.
WriterTools == {"read_file", "run_command"}
NameLen(name) == IF name = "read_file" THEN 9 ELSE 11
\* "\n`🔧 name...`" and "\n`✅ name`" in UTF-16 code units
RunningLen(name) == 9 + NameLen(name)
DoneLen(name) == 5 + NameLen(name)
Chunk(len) == [kind |-> "text", name |-> "", len |-> len]
RunningMarker(name) == [kind |-> "running", name |-> name, len |-> RunningLen(name)]
DoneMarker(name) == [kind |-> "done", name |-> name, len |-> DoneLen(name)]

\* the lengths of the chunks of text: one that nearly fills a page, one
\* longer than two pages
ChunkLens == {TELEGRAM_MAX_CHARS - 96, 2 * TELEGRAM_MAX_CHARS + 8}

\* the offset of piece k in the buffer, and buffer.length
RECURSIVE Offset(_, _)
Offset(buf, k) == IF k <= 1 THEN 0 ELSE Offset(buf, k - 1) + buf[k - 1].len
Length(buf) == Offset(buf, Len(buf) + 1)

Max(a, b) == IF a > b THEN a ELSE b
Min(a, b) == IF a < b THEN a ELSE b

\* buffer.slice(a, b)
PageSlice(buf, a, b) ==
  LET run(k) == [item |-> k, kind |-> buf[k].kind, name |-> buf[k].name,
                 from |-> Max(0, a - Offset(buf, k)),
                 to |-> Min(buf[k].len, b - Offset(buf, k))]
      NonEmpty(r) == r.from < r.to
  IN SelectSeq([k \in 1..Len(buf) |-> run(k)], NonEmpty)

\* runs that continue one another written as one run
RECURSIVE Joined(_)
Joined(runs) ==
  IF Len(runs) <= 1 THEN runs
  ELSE LET h == Head(runs)
           m == Joined(Tail(runs))
       IN IF h.item = m[1].item /\ h.kind = m[1].kind /\ h.to = m[1].from
          THEN <<[h EXCEPT !.to = m[1].to]>> \o Tail(m)
          ELSE <<h>> \o m

\* the error messages of a failed Telegram call, as the phrases the catch
\* of sendOrEdit looks for
NOT_MODIFIED == <<"ETELEGRAM: 400", "Bad Request", "message is not modified">>
PARSE_ERROR == <<"ETELEGRAM: 400", "Bad Request", "can't parse entities">>
NETWORK_ERROR == <<"EFATAL", "socket hang up">>
TelegramErrors == {PARSE_ERROR, NETWORK_ERROR}

\* new TelegramMessageWriter(bot, chatId), in a chat with no message of
\* the bot, before the handler passed it any event
NewWriter ==
  [buffer |-> <<>>, messageId |-> 0, messagePageIndex |-> 0, lastEditTime |-> 0,
   editTimer |-> 0,
   timers |-> {},        \* the timeouts set and not yet fired or cleared: [id, due]
   flights |-> <<>>,     \* the flushes waiting for their Telegram call
   chat |-> <<>>,        \* chat[id]: the content of message id
   lastStart |-> 0 - 1,  \* when a flush last called sendOrEdit
   last |-> <<"new">>,   \* what happened last: the method called and its argument, the
                         \* timeout, or how a Telegram call ended
   finalized |-> 0,      \* calls of finalize
   logged |-> 0,         \* console.error calls
   rejected |-> FALSE,   \* a flush rejected
   left |-> [appends |-> MaxAppends, ticks |-> MaxTicks, fails |-> 0]]

\* ───────────────────────── the checkpoint tools ──────────────────────
\* lastResult is optional: the value of an argument that was not given
Undefined == [tag |-> "undefined", len |-> 0 - 1]

\* the arguments the model may give save_checkpoint
CheckpointArgs ==
  [goal : {Text("add login", 9)},
   acceptanceCriteria : {Text("tests pass", 10)},
   filesTouched : {<<>>, <<Text("a.ts", 4)>>, <<Text("a.ts", 4), Text("b.ts", 4)>>},
   completedSteps : {<<>>, <<Text("plan", 4)>>},
   nextStep : {Text("write tests", 11)},
   lastResult : {Undefined, Text("", 0), Text("ok", 2), Text("log", LAST_RESULT_SHOWN),
                 Text("log", LAST_RESULT_SHOWN + 1)}]

\* JSON.stringify(checkpoint, null, 2): the members in the order of the
\* object's keys; a member whose value is undefined is left out
Member(key, value) == [key |-> key, value |-> value]
Stringify(args, savedAt) ==
  <<Member("goal", args.goal), Member("acceptanceCriteria", args.acceptanceCriteria),
    Member("filesTouched", args.filesTouched), Member("completedSteps", args.completedSteps),
    Member("nextStep", args.nextStep)>>
  \o (IF args.lastResult = Undefined THEN <<>> ELSE <<Member("lastResult", args.lastResult)>>)
  \o <<Member("savedAt", savedAt)>>

\* a file that was cut short while it was written, and the SyntaxError
\* JSON.parse throws on it
TruncatedFile == <<Member("{", Undefined)>>
SyntaxError == <<Member("SyntaxError", Undefined)>>

\* JSON.parse(raw) as CheckpointData, and cp.<key>
ParseCheckpoint(raw) == IF raw = TruncatedFile THEN SyntaxError ELSE raw
Has(cp, key) == \E k \in 1..Len(cp) : cp[k].key = key
Get(cp, key) ==
  LET at == {k \in 1..Len(cp) : cp[k].key = key}
  IN IF at = {} THEN Undefined ELSE cp[CHOOSE k \in at : \A j \in at : j <= k].value

\* Array.prototype.join(sep)
RECURSIVE Join(_, _)
Join(list, sep) ==
  IF list = <<>> THEN Text("", 0)
  ELSE IF Len(list) = 1 THEN list[1]
  ELSE LET rest == Join(Tail(list), sep)
       IN Text(list[1].tag \o sep.tag \o rest.tag, list[1].len + sep.len + rest.len)

\* the lines of the text load_checkpoint returns; filter(Boolean) drops
\* the empty one
Line(label, value) == [label |-> label, value |-> value]
Truthy(t) == t # Undefined /\ t.len > 0
LoadedLines(cp) ==
  <<Line("CHECKPOINT FOUND (saved", Get(cp, "savedAt")),
    Line("Goal", Get(cp, "goal")),
    Line("Acceptance Criteria", Get(cp, "acceptanceCriteria")),
    Line("Completed Steps",
         IF Len(Get(cp, "completedSteps")) > 0
         THEN Join(Get(cp, "completedSteps"), Text(" -> ", 3)) ELSE Text("none yet", 8)),
    Line("Files Touched So Far",
         IF Len(Get(cp, "filesTouched")) > 0
         THEN Join(Get(cp, "filesTouched"), Text(", ", 2)) ELSE Text("none", 4)),
    Line("NEXT STEP TO EXECUTE", Get(cp, "nextStep"))>>
  \o (IF Truthy(Get(cp, "lastResult"))
      THEN <<Line("Last Result", Slice(Get(cp, "lastResult"), LAST_RESULT_SHOWN))>> ELSE <<>>)

NoFile == <<>>
ToolText(kind, lines) == [kind |-> kind, lines |-> lines]
NoCheckpoint ==
  [file |-> NoFile, saved |-> Undefined, prior |-> Undefined, returned |-> ToolText("", <<>>),
   saves |-> 0]

agentVars == <<inv, aborted, state, wsOpen, sent, now, started, budget, peer, writer, client>>

\* variant: the record is written behind what the file already holds
saveCheckpointAppended ==
  /\ checkpoint.saves < MaxSaves
  /\ \E args \in CheckpointArgs, written \in BOOLEAN :
       checkpoint' =
         IF written
         THEN [file |-> checkpoint.file \o Stringify(args, Text("time", checkpoint.saves + 1)),
               saved |-> args, prior |-> checkpoint.saved,
               returned |-> ToolText("saved", <<Line("Next step queued", args.nextStep)>>),
               saves |-> checkpoint.saves + 1]
         ELSE [checkpoint EXCEPT !.returned = ToolText("save failed", <<>>), !.saves = @ + 1]
  /\ UNCHANGED agentVars

\* saveCheckpoint.handler(args): the file is written, or writing it throws;
\* saved and prior remember the arguments of the last two writes
saveCheckpoint ==
  /\ checkpoint.saves < MaxSaves
  /\ \E args \in CheckpointArgs, written \in BOOLEAN :
       checkpoint' =
         IF written
         THEN [file |-> Stringify(args, Text("time", checkpoint.saves + 1)), saved |-> args,
               prior |-> checkpoint.saved,
               returned |-> ToolText("saved", <<Line("Next step queued", args.nextStep)>>),
               saves |-> checkpoint.saves + 1]
         ELSE [checkpoint EXCEPT !.returned = ToolText("save failed", <<>>), !.saves = @ + 1]
  /\ UNCHANGED agentVars

\* loadCheckpoint.handler(): JSON.parse throws on a file that is not
\* JSON and .length throws on a list that is not there; the catch
\* returns the load error text
loadCheckpoint ==
  /\ checkpoint' =
       [checkpoint EXCEPT !.returned =
          LET cp == ParseCheckpoint(checkpoint.file)
          IN IF checkpoint.file = NoFile THEN ToolText("fresh start", <<>>)
             ELSE IF \/ cp = SyntaxError
                     \/ Has(cp, "completedSteps") = FALSE
                     \/ Has(cp, "filesTouched") = FALSE
                  THEN ToolText("load error", <<>>)
                  ELSE ToolText("found", LoadedLines(cp))]
  /\ UNCHANGED agentVars

\* variant: the tool reports success and leaves the file where it is
clearCheckpointKept ==
  /\ checkpoint' = [checkpoint EXCEPT !.returned = ToolText("cleared", <<>>)]
  /\ UNCHANGED agentVars

\* clearCheckpoint.handler()
clearCheckpoint ==
  /\ checkpoint' =
       [checkpoint EXCEPT !.file = NoFile,
                          !.returned = IF checkpoint.file = NoFile THEN ToolText("already clean", <<>>)
                                       ELSE ToolText("cleared", <<>>)]
  /\ UNCHANGED agentVars

\* ───────────────────────── runAgent ───────────────────────────────────
\* variants of the terminal event below the loop: a notice that is not
\* terminal, and the error of the revision without phases
ExhaustedAsNotice == Ev("text_chunk", "", 0, Text("phase limit", 11))
ExhaustedAsError == Ev("error", "", 0, Text("Max turns reached", 17))

\* the terminal event emitted below the while loop
ExhaustedEvent == Ev("needs_continue", "", 0, NoText)

\* variant: the catch of the message handler only logs
CommitSilentCatch(i, r, evs, st, snt) ==
  LET out == IF OpenOf(r.caller) THEN [k \in 1..Len(evs) |-> evs[k].type] ELSE <<>>
  IN /\ inv' = [inv EXCEPT ![i] = [r EXCEPT !.events = @ \o evs]]
     /\ Store(r.caller,
              IF r.pc = "returned"
              THEN [st EXCEPT !.conversationHistory = r.result, !.abortController = 0]
              ELSE IF r.pc = "threw" THEN [st EXCEPT !.abortController = 0] ELSE st,
              [snt EXCEPT ![i] = @ \o out])

\* errMsg.includes(part), on a message written as its words
Includes(errMsg, part) == \E k \in 1..Len(errMsg) : errMsg[k] = part

\* the event types the onEvent of the Telegram handler has a case for
TgCases == {"text_chunk", "tool_start", "tool_done", "complete", "error"}
TgHandled(type) == type \in TgCases

\* what the chat is sent for the events of one step of an invocation, and
\* for the error the try block caught
TgOut(evs) == SelectSeq([k \in 1..Len(evs) |-> evs[k].type], TgHandled)
TgCaught(errMsg) == IF Includes(errMsg, "aborted") THEN <<>> ELSE <<"error">>

\* the history a finished invocation hands back, and what the caller
\* (the message handler of the connection or of the chat) does with it
Commit(i, r, evs, st, snt) ==
  LET out == IF r.caller = "tg" THEN TgOut(evs)
             ELSE IF OpenOf(r.caller) THEN [k \in 1..Len(evs) |-> evs[k].type] ELSE <<>>
      err == IF r.caller = "tg" THEN TgCaught(r.error)
             ELSE IF OpenOf(r.caller) THEN <<"error">> ELSE <<>>
  IN /\ inv' = [inv EXCEPT ![i] = [r EXCEPT !.events = @ \o evs]]
     /\ IF r.pc = "returned"
        THEN Store(r.caller, [st EXCEPT !.conversationHistory = r.result, !.abortController = 0],
                   [snt EXCEPT ![i] = @ \o out])
        ELSE IF r.pc = "threw"
        THEN Store(r.caller, [st EXCEPT !.abortController = 0], [snt EXCEPT ![i] = @ \o out \o err])
        ELSE Store(r.caller, st, [snt EXCEPT ![i] = @ \o out])

\* the responses the provider may give to the next model call; once the
\* budget of calls is used up it only gives final answers
Responses(r, bud) ==
  IF bud.calls = 0 THEN {FinalAnswer}
  ELSE IF bud.rich > 0 /\ r.turns >= MAX_TURNS_PER_PHASE - bud.window
  THEN PlainResponses \cup bud.menu ELSE PlainResponses

\* The request check of the Messages API: every tool_use of an assistant
\* turn is answered by a tool_result in the user turn that follows it.
ToolUseIds(m) == {m.blocks[b].id : b \in {x \in 1..Len(m.blocks) : m.blocks[x].type = "tool_use"}}
ToolResultIds(m) == {m.blocks[b].id : b \in {x \in 1..Len(m.blocks) : m.blocks[x].type = "tool_result"}}
Acceptable(messages) ==
  \A k \in 1..Len(messages) :
    messages[k].role = "assistant" /\ ToolUseIds(messages[k]) # {} =>
      /\ k < Len(messages)
      /\ messages[k + 1].role = "user"
      /\ ToolUseIds(messages[k]) \subseteq ToolResultIds(messages[k + 1])

\* the message of the error a rejected request throws
REJECTED == <<"invalid_request_error">>

\* variant: the loop goes round once more at the ceiling
WithinPhaseInclusive(turns) == turns <= MAX_TURNS_PER_PHASE

\* the condition of the while loop
WithinPhase(turns) == turns < MAX_TURNS_PER_PHASE

\* while (turns < MAX_TURNS_PER_PHASE) { if (aborted) break; turns++; stream = ... }
\* and, below the loop, the terminal event and the return
LoopHead(i, r, evs, ab, st, snt, bud) ==
  IF WithinPhase(r.turns) /\ ~ab /\ ~Acceptable(r.messages)
  THEN /\ budget' = bud
       /\ Commit(i, [r EXCEPT !.turns = @ + 1, !.pc = "threw", !.error = REJECTED], evs, st, snt)
  ELSE IF WithinPhase(r.turns) /\ ~ab
  THEN \E resp \in Responses(r, bud) :
         /\ budget' = [bud EXCEPT !.calls = IF @ > 0 THEN @ - 1 ELSE 0,
                                  !.rich = IF resp \in PlainResponses THEN @ ELSE @ - 1]
         /\ Commit(i, [r EXCEPT !.turns = @ + 1, !.resp = resp,
                                !.rich = resp \notin PlainResponses,
                                !.stream = StreamOf(resp, r.turns + 1),
                                !.assistantContent = <<>>, !.toolUseBlocks = <<>>,
                                !.pc = "streaming"], evs, st, snt)
  ELSE /\ budget' = bud
       /\ Commit(i, [r EXCEPT !.pc = "returned", !.result = r.messages],
                 Append(evs, ExhaustedEvent), st, snt)

\* the user turn runAgent builds from its arguments
UserContent(userMessage, images) ==
  IF images > 0
  THEN Msg("user", NoText,
           [k \in 1..images |-> ImageBlock]
           \o (IF userMessage.tag # "" THEN <<TextBlock(userMessage)>> ELSE <<>>))
  ELSE Msg("user", userMessage, <<>>)

\* runAgent(userMessage, images, conversationHistory, onEvent, abortSignal) up
\* to its first await; the signal is the one of the controller the session
\* holds at the call, which has not been aborted
Call(i, caller, userMessage, images, conversationHistory, st, snt, bud) ==
  LoopHead(i, [IdleInv EXCEPT !.messages = Append(conversationHistory, UserContent(userMessage, images)),
                              !.base = Len(conversationHistory) + 1,
                              !.signal = st.abortController, !.caller = caller],
           <<>>, FALSE, st, snt, bud)

Streaming(i) == inv[i].pc = "streaming" /\ inv[i].stream # <<>>

\* abortSignal.aborted as invocation i reads it
Signal(i) == aborted[inv[i].signal]

\* for await (const event of stream) { if (aborted) break; ... } with the
\* signal set: both loops are left and the code below the loop runs
StreamAbort(i) ==
  /\ inv[i].pc = "streaming" /\ Signal(i)
  /\ LoopHead(i, [inv[i] EXCEPT !.stream = <<>>], <<>>, TRUE, StateOf(i), SentOf(i), budget)
  /\ UNCHANGED <<aborted, wsOpen, now, started>>
  /\ UNCHANGED <<checkpoint, writer, client>>

OnContentBlockStart(i) ==
  /\ Streaming(i) /\ ~Signal(i)
  /\ LET r == inv[i]
         e == Head(r.stream)
     IN /\ e.type = "content_block_start"
        /\ IF e.btype = "tool_use"
           THEN Commit(i, [r EXCEPT !.stream = Tail(@),
                                    !.toolUseBlocks = Append(@, [id |-> e.id, name |-> e.name,
                                                                 input |-> EmptyObject, rawInput |-> <<>>])],
                       <<Ev("tool_start", e.name, e.id, NoText)>>, StateOf(i), SentOf(i))
           ELSE Commit(i, [r EXCEPT !.stream = Tail(@)], <<>>, StateOf(i), SentOf(i))
  /\ UNCHANGED <<aborted, wsOpen, now, started, budget>>
  /\ UNCHANGED <<checkpoint, writer, client>>

\* variant: the fragment is put in front
AppendFragmentFront(rawInput, partial_json) == partial_json \o rawInput

\* _rawInput = (_rawInput ?? '') + partial_json
AppendFragment(rawInput, partial_json) == rawInput \o partial_json

OnContentBlockDelta(i) ==
  /\ Streaming(i) /\ ~Signal(i)
  /\ LET r == inv[i]
         e == Head(r.stream)
         n == Len(r.toolUseBlocks)
     IN /\ e.type = "content_block_delta"
        /\ IF e.btype = "text_delta"
           THEN Commit(i, [r EXCEPT !.stream = Tail(@)],
                       <<Ev("text_chunk", "", 0, e.text)>>, StateOf(i), SentOf(i))
           ELSE IF n > 0
           THEN Commit(i, [r EXCEPT !.stream = Tail(@),
                                    !.toolUseBlocks[n].rawInput = AppendFragment(@, e.partial_json)],
                       <<>>, StateOf(i), SentOf(i))
           ELSE Commit(i, [r EXCEPT !.stream = Tail(@)], <<>>, StateOf(i), SentOf(i))
  /\ UNCHANGED <<aborted, wsOpen, now, started, budget>>
  /\ UNCHANGED <<checkpoint, writer, client>>

\* try { input = JSON.parse(_rawInput) } catch { input = {} }
ParseOrEmpty(rawInput) ==
  IF JSONParse(rawInput).ok THEN JSONParse(rawInput).val ELSE EmptyObject

OnContentBlockStop(i) ==
  /\ Streaming(i) /\ ~Signal(i)
  /\ LET r == inv[i]
         e == Head(r.stream)
         n == Len(r.toolUseBlocks)
     IN /\ e.type = "content_block_stop"
        /\ IF n > 0 /\ r.toolUseBlocks[n].rawInput # <<>>
           THEN Commit(i, [r EXCEPT !.stream = Tail(@),
                                    !.toolUseBlocks[n].input = ParseOrEmpty(r.toolUseBlocks[n].rawInput)],
                       <<>>, StateOf(i), SentOf(i))
           ELSE Commit(i, [r EXCEPT !.stream = Tail(@)], <<>>, StateOf(i), SentOf(i))
  /\ UNCHANGED <<aborted, wsOpen, now, started, budget>>
  /\ UNCHANGED <<checkpoint, writer, client>>

\* message_stop: the loop body waits for stream.finalMessage()
OnMessageStop(i) ==
  /\ Streaming(i) /\ ~Signal(i)
  /\ Head(inv[i].stream).type = "message_stop"
  /\ Commit(i, [inv[i] EXCEPT !.stream = Tail(@), !.pc = "await_final"], <<>>, StateOf(i), SentOf(i))
  /\ UNCHANGED <<aborted, wsOpen, now, started, budget>>
  /\ UNCHANGED <<checkpoint, writer, client>>

\* the stream is over: the for-await loop ends and the while loop goes round
StreamEnd(i) ==
  /\ inv[i].pc = "streaming" /\ inv[i].stream = <<>> /\ ~Signal(i)
  /\ LoopHead(i, inv[i], <<>>, FALSE, StateOf(i), SentOf(i), budget)
  /\ UNCHANGED <<aborted, wsOpen, now, started>>
  /\ UNCHANGED <<checkpoint, writer, client>>

\* the transport fails instead of delivering the next event: runAgent throws
\* the messages of the errors a failing stream throws: the SDK's connection
\* error, and the error of a response that was cut off
ErrorMessages == {<<"Connection", "error.">>, <<"aborted">>}

StreamThrows(i) ==
  /\ Streaming(i)
  /\ \E e \in ErrorMessages :
       Commit(i, [inv[i] EXCEPT !.pc = "threw", !.error = e, !.stream = <<>>], <<>>, StateOf(i), SentOf(i))
  /\ UNCHANGED <<aborted, wsOpen, now, started, budget>>
  /\ UNCHANGED <<checkpoint, writer, client>>

\* what a handler does when it is awaited: it resolves with a text or rejects
Outcome(kind, text) == [kind |-> kind, text |-> text]
Outcomes(r) ==
  IF r.rich
  THEN {Outcome("ok", Text("out", 20)), Outcome("ok", Text("out", 600)),
        Outcome("throw", Text("boom", 4))}
  ELSE {Outcome("ok", Text("out", 20))}

\* variant: the rejection's message alone
ToolResultTextBare(o) == o.text

\* resultText of a handler that was awaited
ToolResultText(o) ==
  IF o.kind = "ok" THEN o.text
  ELSE Text("Error executing tool: ", 22 + o.text.len)

UnknownToolText == Text("Unknown tool: ", 26)

\* variant: the preview is pushed instead of the text
PushResultPreview(r, block, resultText) ==
  [r EXCEPT !.toolResults = Append(@, ToolResultBlock(block.id, Slice(resultText, PREVIEW_LEN)))]

\* onEvent(tool_done) and toolResults.push for one block
PushResult(r, block, resultText) ==
  [r EXCEPT !.toolResults = Append(@, ToolResultBlock(block.id, resultText))]

\* variant: the event carries the whole text
ToolDoneWhole(block, resultText) == Ev("tool_done", block.name, block.id, resultText)

ToolDone(block, resultText) == Ev("tool_done", block.name, block.id, Slice(resultText, PREVIEW_LEN))

\* variant: the turns of earlier phases are dropped when the results are pushed
AfterBatchTrimmed(r, evs) ==
  [r |-> [r EXCEPT !.messages = Append(SubSeq(@, r.base, Len(@)), Msg("user", NoText, r.toolResults)),
                   !.pc = "streaming"],
   evs |-> evs]

\* messages.push({ role: 'user', content: toolResults }); the loop body then
\* waits for the next stream event
AfterBatch(r, evs) ==
  [r |-> [r EXCEPT !.messages = Append(@, Msg("user", NoText, r.toolResults)),
                   !.pc = "streaming"],
   evs |-> evs]

\* variant: every remaining tool of the batch is started at once
DispatchedAll(content, k) ==
  {content[j].id : j \in {x \in k..Len(content) : content[x].type = "tool_use"}}

\* the handlers the loop starts when it reaches block k
Dispatched(content, k) == {content[k].id}

\* for (const block of assistantContent) from block k on, up to the next await
RECURSIVE RunBlocks(_, _, _, _)
RunBlocks(r, k, evs, ab) ==
  IF k > Len(r.assistantContent) THEN AfterBatch(r, evs)
  ELSE LET block == r.assistantContent[k]
       IN IF block.type # "tool_use" THEN RunBlocks(r, k + 1, evs, ab)
          ELSE IF ab THEN AfterBatch(r, evs)
          ELSE IF HasHandler(block.name)
          THEN [r |-> [r EXCEPT !.pc = "await_handler", !.blockIdx = k,
                                !.heartbeatInterval = TRUE, !.handlerInput = block.input,
                                !.inflight = @ \cup Dispatched(r.assistantContent, k),
                                !.calls = Append(@, [id |-> block.id, input |-> block.input])],
                evs |-> evs]
          ELSE RunBlocks(PushResult(r, block, UnknownToolText), k + 1,
                         Append(evs, ToolDone(block, UnknownToolText)), ab)

\* variant: the ceiling written with a digit too many
OverCutoffScaled(tokens) == tokens > 10 * TOKEN_CUTOFF_THRESHOLD

OverCutoff(tokens) == tokens > TOKEN_CUTOFF_THRESHOLD

\* the body of the message_stop branch once finalMessage() has resolved
FinalMessage(i) ==
  /\ inv[i].pc = "await_final"
  /\ \E finalMsg \in FinalMsgs(inv[i].resp, inv[i].turns) :
       LET tokens == inv[i].cumulativeInputTokens + finalMsg.input_tokens
           r == [inv[i] EXCEPT !.assistantContent = finalMsg.content,
                               !.cumulativeInputTokens = tokens]
           assistant == Msg("assistant", NoText, finalMsg.content)
           warn == IF tokens > TOKEN_WARN_THRESHOLD /\ tokens <= TOKEN_CUTOFF_THRESHOLD
                   THEN <<Ev("text_chunk", "", 0, Text("warning", 100))>> ELSE <<>>
           done == [r EXCEPT !.pc = "returned", !.result = Append(r.messages, assistant)]
       IN IF OverCutoff(tokens)
          THEN Commit(i, done, Append(warn, Ev("needs_continue", "", 0, NoText)), StateOf(i), SentOf(i))
          ELSE IF finalMsg.stop_reason = "end_turn"
          THEN Commit(i, done, Append(warn, Ev("complete", "", 0, NoText)), StateOf(i), SentOf(i))
          ELSE IF finalMsg.stop_reason = "tool_use"
          THEN LET b == RunBlocks([r EXCEPT !.messages = Append(@, assistant), !.toolResults = <<>>],
                                  1, warn, Signal(i))
               IN Commit(i, b.r, b.evs, StateOf(i), SentOf(i))
          ELSE Commit(i, done, Append(warn, Ev("complete", "", 0, NoText)), StateOf(i), SentOf(i))
  /\ UNCHANGED <<aborted, wsOpen, now, started, budget>>
  /\ UNCHANGED <<checkpoint, writer, client>>

\* await handler(block.input) settles: try/catch/finally, tool_done, push, next block
HandlerDone(i) ==
  /\ inv[i].pc = "await_handler"
  /\ \E o \in Outcomes(inv[i]) :
       LET r == inv[i]
           block == r.assistantContent[r.blockIdx]
           resultText == ToolResultText(o)
           r1 == [PushResult(r, block, resultText) EXCEPT
                    !.heartbeatInterval = FALSE, !.inflight = @ \ {block.id},
                    !.settled = Append(@, [id |-> block.id, kind |-> o.kind, text |-> o.text])]
           b == RunBlocks(r1, r.blockIdx + 1, <<ToolDone(block, resultText)>>, Signal(i))
       IN Commit(i, b.r, b.evs, StateOf(i), SentOf(i))
  /\ UNCHANGED <<aborted, wsOpen, now, started, budget>>
  /\ UNCHANGED <<checkpoint, writer, client>>

\* variant: the interval is not cleared when the handler has settled
HeartbeatActiveStale(r) == r.blockIdx > 0 /\ r.blockIdx <= Len(r.assistantContent)

\* the setInterval callback of the running tool
HeartbeatActive(r) == r.pc = "await_handler" /\ r.heartbeatInterval

Heartbeat(i) ==
  /\ HeartbeatActive(inv[i]) /\ ~Signal(i)
  /\ inv[i].rich /\ inv[i].beats < MaxBeats
  /\ Commit(i, [inv[i] EXCEPT !.beats = @ + 1],
            <<Ev("heartbeat", inv[i].assistantContent[inv[i].blockIdx].name, 0, NoText)>>, StateOf(i), SentOf(i))
  /\ UNCHANGED <<aborted, wsOpen, now, started, budget>>
  /\ UNCHANGED <<checkpoint, writer, client>>

\* ───────────────────────── the WebSocket connection ───────────────────
\* the time since the previous event of the session: none, exactly a
\* window, or a window and a millisecond
Delays(bud, window) == IF bud.clock > 0 THEN {0, window, window + 1} ELSE {0}

\* what the client puts into a {type: 'message'}: content, whether it is
\* blank after trim(), and the number of images
UserInputs ==
  { [content |-> Text("hi", 2), blank |-> FALSE, images |-> 0],
    [content |-> Text("", 0), blank |-> TRUE, images |-> 1],
    [content |-> Text("", 0), blank |-> TRUE, images |-> 0] }

\* variant: the window is over as soon as its length is reached
RateLimitInclusive(st, t) ==
  LET w == IF t - st.windowStart >= WS_MESSAGE_WINDOW_MS
           THEN [st EXCEPT !.messageCount = 0, !.windowStart = t] ELSE st
  IN [w EXCEPT !.messageCount = @ + 1]

\* the fixed-window counter at the head of the message handler
RateLimit(st, t) ==
  LET w == IF t - st.windowStart > WS_MESSAGE_WINDOW_MS
           THEN [st EXCEPT !.messageCount = 0, !.windowStart = t] ELSE st
  IN [w EXCEPT !.messageCount = @ + 1]

\* ws.send of an error of the message handler itself
RATE_LIMITED == "Rate limit"
NO_CONTENT == "Message must have text or at least one image"
WsError(snt, message) == [snt EXCEPT ![0] = Append(@, message)]

Abort(id) == IF id = 0 THEN aborted ELSE [aborted EXCEPT ![id] = TRUE]

\* ws.on('message') with a {type: 'message'} payload
WsUserMessage ==
  /\ wsOpen /\ budget.ws > 0 /\ budget.msgs > 0
  /\ \E dt \in Delays(budget, WS_MESSAGE_WINDOW_MS), m \in UserInputs :
       LET st == RateLimit(state, now + dt)
           id == started + 1
           bud == [budget EXCEPT !.ws = @ - 1, !.msgs = @ - 1,
                                 !.clock = IF dt > 0 THEN @ - 1 ELSE @]
       IN /\ now' = now + dt
          /\ IF st.messageCount > WS_MESSAGE_LIMIT \/ (m.blank /\ m.images = 0)
             THEN /\ state' = st
                  /\ sent' = WsError(sent, IF st.messageCount > WS_MESSAGE_LIMIT
                                           THEN RATE_LIMITED ELSE NO_CONTENT)
                  /\ budget' = bud
                  /\ UNCHANGED <<inv, aborted, started, peer>>
             ELSE /\ aborted' = Abort(st.abortController)
                  /\ started' = id
                  /\ Call(id, "ws", m.content, m.images, st.conversationHistory,
                          [st EXCEPT !.abortController = id], sent, bud)
  /\ Taken("message")
  /\ UNCHANGED wsOpen
  /\ UNCHANGED <<checkpoint, writer>>

\* ws.on('message') with a {type: 'cancel'} payload
WsCancel ==
  /\ wsOpen /\ budget.ws > 0
  /\ \E dt \in Delays(budget, WS_MESSAGE_WINDOW_MS) :
       LET st == RateLimit(state, now + dt)
       IN /\ now' = now + dt
          /\ budget' = [budget EXCEPT !.ws = @ - 1, !.clock = IF dt > 0 THEN @ - 1 ELSE @]
          /\ IF st.messageCount > WS_MESSAGE_LIMIT
             THEN /\ state' = st
                  /\ sent' = WsError(sent, RATE_LIMITED)
                  /\ UNCHANGED aborted
             ELSE /\ aborted' = Abort(st.abortController)
                  /\ state' = [st EXCEPT !.abortController = 0]
                  /\ UNCHANGED sent
  /\ Taken("cancel")
  /\ UNCHANGED <<inv, wsOpen, started>>
  /\ UNCHANGED <<checkpoint, peer, writer>>

\* ws.on('close')
WsClose ==
  /\ wsOpen
  /\ wsOpen' = FALSE
  /\ aborted' = Abort(state.abortController)
  /\ UNCHANGED <<inv, state, sent, now, started, budget>>
  /\ UNCHANGED <<checkpoint, peer, writer, client>>

\* ───────────────────────── the Telegram chat ──────────────────────────
\* what a chat message holds after trim(): a task, nothing, or a command
\* the handler has no branch for
TgTexts ==
  { [content |-> Text("hi", 2), ignored |-> FALSE],
    [content |-> Text("", 0), ignored |-> TRUE],
    [content |-> Text("/help", 5), ignored |-> TRUE] }

\* variant: every attempt opens a new window
checkRateLimitRestart(st, t) == [st EXCEPT !.messageCount = 1, !.windowStart = t]

\* checkRateLimit(state): the state it leaves; it returns
\* messageCount <= TG_MESSAGE_LIMIT
checkRateLimit(st, t) ==
  LET w == IF t - st.windowStart > TG_MESSAGE_WINDOW_MS
           THEN [st EXCEPT !.messageCount = 0, !.windowStart = t] ELSE st
  IN [w EXCEPT !.messageCount = @ + 1]

TgNotice(snt, what) == [snt EXCEPT ![0] = Append(@, what)]

\* the message of the TypeError of reading .signal of null
NULL_SIGNAL == <<"Cannot", "read", "properties", "of", "null">>

\* handleMessage with a text that is not /start, /reset or /cancel, up to
\* await bot.sendChatAction
TgMessage ==
  /\ budget.tg > 0 /\ budget.msgs > 0
  /\ \E dt \in Delays(budget, TG_MESSAGE_WINDOW_MS), m \in TgTexts :
       LET st == checkRateLimit(state, now + dt)
           id == started + 1
           bud == [budget EXCEPT !.tg = @ - 1, !.clock = IF dt > 0 THEN @ - 1 ELSE @]
       IN /\ now' = now + dt
          /\ IF m.ignored
             THEN /\ budget' = bud
                  /\ UNCHANGED <<inv, aborted, state, sent, started>>
             ELSE IF st.messageCount > TG_MESSAGE_LIMIT
             THEN /\ state' = st
                  /\ sent' = TgNotice(sent, RATE_LIMITED)
                  /\ budget' = [bud EXCEPT !.msgs = @ - 1]
                  /\ UNCHANGED <<inv, aborted, started>>
             ELSE /\ aborted' = Abort(st.abortController)
                  /\ state' = [st EXCEPT !.abortController = id]
                  /\ started' = id
                  /\ inv' = [inv EXCEPT ![id] = [IdleInv EXCEPT !.pc = "typing", !.caller = "tg",
                                                               !.text = m.content]]
                  /\ budget' = [bud EXCEPT !.msgs = @ - 1]
                  /\ UNCHANGED sent
  /\ UNCHANGED wsOpen
  /\ UNCHANGED <<checkpoint, peer, writer, client>>

\* sendChatAction has resolved: the try block evaluates the arguments of
\* runAgent, the history and the signal of the controller the chat holds now
TgCall(i) ==
  /\ inv[i].pc = "typing"
  /\ IF state.abortController = 0
     THEN /\ Commit(i, [inv[i] EXCEPT !.pc = "threw", !.error = NULL_SIGNAL], <<>>, StateOf(i), SentOf(i))
          /\ UNCHANGED budget
     ELSE Call(i, "tg", inv[i].text, 0, state.conversationHistory, state, sent, budget)
  /\ UNCHANGED <<aborted, wsOpen, now, started>>
  /\ UNCHANGED <<checkpoint, writer, client>>

\* handleMessage with /cancel
TgCancel ==
  /\ budget.tg > 0
  /\ budget' = [budget EXCEPT !.tg = @ - 1]
  /\ IF state.abortController # 0
     THEN /\ aborted' = Abort(state.abortController)
          /\ state' = [state EXCEPT !.abortController = 0]
          /\ sent' = TgNotice(sent, "cancelled")
     ELSE /\ sent' = TgNotice(sent, "nothing_to_cancel")
          /\ UNCHANGED <<aborted, state>>
  /\ UNCHANGED <<inv, wsOpen, now, started>>
  /\ UNCHANGED <<checkpoint, peer, writer, client>>

\* handleMessage with /reset
TgReset ==
  /\ budget.tg > 0
  /\ budget' = [budget EXCEPT !.tg = @ - 1]
  /\ aborted' = Abort(state.abortController)
  /\ state' = [state EXCEPT !.abortController = 0, !.conversationHistory = <<>>]
  /\ sent' = TgNotice(sent, "reset")
  /\ UNCHANGED <<inv, wsOpen, now, started>>
  /\ UNCHANGED <<checkpoint, peer, writer, client>>

Step(i) ==
  \/ StreamAbort(i)
  \/ OnContentBlockStart(i)
  \/ OnContentBlockDelta(i)
  \/ OnContentBlockStop(i)
  \/ OnMessageStop(i)
  \/ StreamEnd(i)
  \/ StreamThrows(i)
  \/ FinalMessage(i)
  \/ HandlerDone(i)
  \/ Heartbeat(i)

Init ==
  /\ inv = [i \in AllIds |-> IdleInv]
  /\ aborted = [i \in AllIds |-> FALSE]
  /\ state = NewState
  /\ wsOpen = TRUE
  /\ sent = [i \in {0} \cup AllIds |-> <<>>]
  /\ now = 0
  /\ started = 0
  /\ checkpoint = NoCheckpoint
  /\ peer = NoPeer
  /\ writer = NewWriter
  /\ client = NewClient
  /\ budget = [msgs |-> MaxMsgs, ws |-> MaxWsMsgs, tg |-> 0, calls |-> MaxCalls, rich |-> MaxRichTurns,
               window |-> RichWindow, menu |-> RichResponses, peer |-> 0, clock |-> MaxAdvances]

Next ==
  \/ WsUserMessage
  \/ WsCancel
  \/ WsClose
  \/ \E i \in AllIds : Step(i)

Spec == Init /\ [][Next]_vars

\* The event loop runs every continuation that is ready, the provider's
\* stream delivers its next event or fails, and a handler that was
\* started settles.
FairSpec == Spec /\ \A i \in InvIds : WF_vars(Step(i))

\* ───────────────────────── a session that has a history ─────────────
\* The connection after a first turn that the model answered with text:
\* the handler stored the history runAgent returned.
EarlierTurns ==
  <<Msg("user", Text("hi", 2), <<>>), Msg("assistant", NoText, <<TextBlock(Text("t", 1))>>)>>

InitResumed ==
  /\ inv = [i \in AllIds |-> IdleInv]
  /\ aborted = [i \in AllIds |-> FALSE]
  /\ state = [NewState EXCEPT !.conversationHistory = EarlierTurns]
  /\ wsOpen = TRUE
  /\ sent = [i \in {0} \cup AllIds |-> <<>>]
  /\ now = 0
  /\ started = 0
  /\ checkpoint = NoCheckpoint
  /\ peer = NoPeer
  /\ writer = NewWriter
  /\ client = NewClient
  /\ budget = [msgs |-> MaxMsgs, ws |-> MaxWsMsgs, tg |-> 0, calls |-> MaxCalls, rich |-> MaxRichTurns,
               window |-> RichWindow, menu |-> RichResponses, peer |-> 0, clock |-> MaxAdvances]

SpecResumed == InitResumed /\ [][Next]_vars

\* ───────────────────────── a session with overlapping turns ──────────
\* The same connection, with a second user message and with a provider
\* whose first response may be a tool batch that crosses the token ceiling.
SessionResponses ==
  {Resp(B_TWO, "tool_use", 120000, TRUE), Resp(B_TWO, "tool_use", 1000, TRUE)}

InitSession ==
  /\ inv = [i \in AllIds |-> IdleInv]
  /\ aborted = [i \in AllIds |-> FALSE]
  /\ state = NewState
  /\ wsOpen = TRUE
  /\ sent = [i \in {0} \cup AllIds |-> <<>>]
  /\ now = 0
  /\ started = 0
  /\ checkpoint = NoCheckpoint
  /\ peer = NoPeer
  /\ writer = NewWriter
  /\ client = NewClient
  /\ budget = [msgs |-> SessMsgs, ws |-> SessWsMsgs, tg |-> 0, calls |-> SessCalls,
               rich |-> MaxRichTurns, window |-> MAX_TURNS_PER_PHASE, menu |-> SessionResponses,
               peer |-> 0, clock |-> 0]

SpecSession == InitSession /\ [][Next]_vars

\* ───────────────────────── two connections ──────────────────────────
\* wss.on('connection') ran twice: each run made its own state object and
\* closed its handlers over its own ws. The handlers of the second
\* connection are the handlers above on peer.
PeerUserMessage ==
  /\ peer.open /\ budget.peer > 0 /\ started < Cardinality(AllIds)
  /\ \E m \in UserInputs :
       LET st == RateLimit(peer.state, now)
           id == started + 1
           bud == [budget EXCEPT !.peer = @ - 1]
       IN IF st.messageCount > WS_MESSAGE_LIMIT \/ (m.blank /\ m.images = 0)
          THEN /\ peer' = [peer EXCEPT !.state = st,
                                       !.sent = WsError(@, IF st.messageCount > WS_MESSAGE_LIMIT
                                                           THEN RATE_LIMITED ELSE NO_CONTENT)]
               /\ budget' = bud
               /\ UNCHANGED <<inv, aborted, started, state, sent>>
          ELSE /\ aborted' = Abort(st.abortController)
               /\ started' = id
               /\ Call(id, "peer", m.content, m.images, st.conversationHistory,
                       [st EXCEPT !.abortController = id], peer.sent, bud)
  /\ UNCHANGED <<wsOpen, now>>
  /\ UNCHANGED <<checkpoint, writer, client>>

PeerCancel ==
  /\ peer.open /\ budget.peer > 0
  /\ LET st == RateLimit(peer.state, now)
     IN /\ budget' = [budget EXCEPT !.peer = @ - 1]
        /\ IF st.messageCount > WS_MESSAGE_LIMIT
           THEN /\ peer' = [peer EXCEPT !.state = st, !.sent = WsError(@, RATE_LIMITED)]
                /\ UNCHANGED aborted
           ELSE /\ aborted' = Abort(st.abortController)
                /\ peer' = [peer EXCEPT !.state = [st EXCEPT !.abortController = 0]]
  /\ UNCHANGED <<inv, state, sent, wsOpen, now, started>>
  /\ UNCHANGED <<checkpoint, writer, client>>

PeerClose ==
  /\ peer.open
  /\ peer' = [peer EXCEPT !.open = FALSE]
  /\ aborted' = Abort(peer.state.abortController)
  /\ UNCHANGED <<inv, state, sent, wsOpen, now, started, budget>>
  /\ UNCHANGED <<checkpoint, writer, client>>

\* the provider may answer one call of the two connections with a batch of tools
IsoResponses == {Resp(B_TWO, "tool_use", 1000, TRUE)}

InitIsolation ==
  /\ inv = [i \in AllIds |-> IdleInv]
  /\ aborted = [i \in AllIds |-> FALSE]
  /\ state = NewState
  /\ wsOpen = TRUE
  /\ sent = [i \in {0} \cup AllIds |-> <<>>]
  /\ now = 0
  /\ started = 0
  /\ checkpoint = NoCheckpoint
  /\ peer = [NoPeer EXCEPT !.open = TRUE]
  /\ writer = NewWriter
  /\ client = NewClient
  /\ budget = [msgs |-> IsoMsgs, ws |-> IsoMsgs, tg |-> 0, calls |-> IsoCalls, rich |-> MaxRichTurns,
               window |-> MAX_TURNS_PER_PHASE, menu |-> IsoResponses, peer |-> IsoFrames, clock |-> 0]

\* the first connection has one turn; the second one sends messages and
\* cancels and is closed while that turn runs
NextIsolation ==
  \/ WsUserMessage
  \/ PeerUserMessage
  \/ PeerCancel
  \/ PeerClose
  \/ \E i \in AllIds : Step(i)

SpecIsolation == InitIsolation /\ [][NextIsolation]_vars

\* ───────────────────────── the web client's automatic continue ─────────
\* ws.on('message') with {type: 'continue'}, which the web client sends
\* after it received needs_continue: the frame is counted by the rate
\* limiter, and neither the 'cancel' nor the 'message' branch takes it.
WsContinue ==
  /\ wsOpen /\ budget.ws > 0
  /\ \/ client.attached
     \/ /\ started > 0 /\ sent[started] # <<>>
        /\ sent[started][Len(sent[started])] = "needs_continue"
  /\ \E dt \in Delays(budget, WS_MESSAGE_WINDOW_MS) :
       LET st == RateLimit(state, now + dt)
       IN /\ now' = now + dt
          /\ budget' = [budget EXCEPT !.ws = @ - 1, !.clock = IF dt > 0 THEN @ - 1 ELSE @]
          /\ state' = st
          /\ sent' = IF st.messageCount > WS_MESSAGE_LIMIT THEN WsError(sent, RATE_LIMITED) ELSE sent
  /\ Taken("continue")
  /\ UNCHANGED <<inv, aborted, wsOpen, started>>
  /\ UNCHANGED <<checkpoint, peer, writer>>

NextContinue ==
  \/ WsUserMessage
  \/ WsContinue
  \/ WsClose
  \/ \E i \in AllIds : Step(i)

SpecContinue == InitSession /\ [][NextContinue]_vars

\* ───────────────────────── the web client (useAgent) ─────────────────
notClient ==
  <<inv, aborted, state, wsOpen, sent, now, started, budget, checkpoint, peer, writer>>

\* send(content, images): the user sends a message
ClientSend ==
  /\ client.attached /\ wsOpen /\ ~client.isStreaming
  /\ Len(client.outbox) < MaxOutbox
  /\ client' = [client EXCEPT !.isStreaming = TRUE, !.inactivityTimer = TRUE,
                              !.cancelled = FALSE, !.outbox = Append(@, "message"),
                              !.last = "send"]
  /\ UNCHANGED notClient

\* cancel(): the stop button, which the input bar shows while isStreaming
ClientCancel ==
  /\ client.attached /\ wsOpen /\ client.isStreaming
  /\ Len(client.outbox) < MaxOutbox
  /\ client' = [client EXCEPT !.isStreaming = FALSE, !.inactivityTimer = FALSE,
                              !.cancelled = TRUE, !.outbox = Append(@, "cancel"),
                              !.last = "cancel"]
  /\ UNCHANGED notClient

\* ws.onmessage for the next event the server sent for invocation i
\* (i = 0: an error of the message handler itself)
ClientOnMessage(i) ==
  /\ client.attached /\ client.read[i] < Len(sent[i])
  /\ LET type == IF i = 0 THEN "error" ELSE sent[i][client.read[i] + 1]
         got == [client EXCEPT !.read[i] = @ + 1, !.inactivityTimer = TRUE, !.last = type]
     IN client' =
          IF type = "needs_continue"
          THEN [got EXCEPT !.inactivityTimer = FALSE, !.isStreaming = FALSE, !.timers = @ + 1]
          ELSE IF type \in {"complete", "error"}
          THEN [got EXCEPT !.inactivityTimer = FALSE, !.isStreaming = FALSE]
          ELSE got
  /\ UNCHANGED notClient

\* the timeout the needs_continue case sets (1200 ms)
ClientContinueTimer ==
  /\ client.attached /\ client.timers > 0
  /\ client' =
       IF wsOpen /\ Len(client.outbox) < MaxOutbox
       THEN [client EXCEPT !.timers = @ - 1, !.isStreaming = TRUE, !.inactivityTimer = TRUE,
                           !.outbox = Append(@, "continue"), !.last = "continue"]
       ELSE [client EXCEPT !.timers = @ - 1, !.last = "timeout"]
  /\ UNCHANGED notClient

\* the inactivity timeout: no event for STREAM_INACTIVITY_TIMEOUT_MS
ClientInactivity ==
  /\ client.attached /\ client.inactivityTimer
  /\ client' = [client EXCEPT !.inactivityTimer = FALSE, !.isStreaming = FALSE,
                              !.last = "inactive"]
  /\ UNCHANGED notClient

InitClient ==
  /\ inv = [i \in AllIds |-> IdleInv]
  /\ aborted = [i \in AllIds |-> FALSE]
  /\ state = NewState
  /\ wsOpen = TRUE
  /\ sent = [i \in {0} \cup AllIds |-> <<>>]
  /\ now = 0
  /\ started = 0
  /\ checkpoint = NoCheckpoint
  /\ peer = NoPeer
  /\ writer = NewWriter
  /\ client = [NewClient EXCEPT !.attached = TRUE]
  /\ budget = [msgs |-> ClientMsgs, ws |-> ClientFrames, tg |-> 0, calls |-> ClientCalls,
               rich |-> MaxRichTurns, window |-> MAX_TURNS_PER_PHASE, menu |-> IsoResponses,
               peer |-> 0, clock |-> 0]

NextClient ==
  \/ ClientSend
  \/ ClientCancel
  \/ \E i \in {0} \cup AllIds : ClientOnMessage(i)
  \/ ClientContinueTimer
  \/ ClientInactivity
  \/ WsUserMessage
  \/ WsCancel
  \/ WsContinue
  \/ \E i \in AllIds : Step(i)

SpecClient == InitClient /\ [][NextClient]_vars

\* ───────────────────────── a Telegram chat ───────────────────────────
TgResponses == {Resp(B_TWO, "tool_use", 1000, TRUE)}

InitTelegram ==
  /\ inv = [i \in AllIds |-> IdleInv]
  /\ aborted = [i \in AllIds |-> FALSE]
  /\ state = NewState
  /\ wsOpen = TRUE
  /\ sent = [i \in {0} \cup AllIds |-> <<>>]
  /\ now = 0
  /\ started = 0
  /\ checkpoint = NoCheckpoint
  /\ peer = NoPeer
  /\ writer = NewWriter
  /\ client = NewClient
  /\ budget = [msgs |-> SessMsgs, ws |-> 0, tg |-> SessWsMsgs, calls |-> SessCalls,
               rich |-> MaxRichTurns, window |-> MAX_TURNS_PER_PHASE, menu |-> TgResponses,
               peer |-> 0, clock |-> 0]

NextTelegram ==
  \/ TgMessage
  \/ TgCancel
  \/ TgReset
  \/ \E i \in AllIds : TgCall(i)
  \/ \E i \in AllIds : Step(i)

SpecTelegram == InitTelegram /\ [][NextTelegram]_vars

\* ───────────────────────── the rate limiter of a session ─────────────
\* A connection or a chat in whose current window k attempts have been
\* counted and that has no turn in flight and an empty history (k cancel
\* frames on a connection; k tasks and a /reset in a chat).
Peers == {"ws", "tg"}
LimitOf(side) == IF side = "ws" THEN WS_MESSAGE_LIMIT ELSE TG_MESSAGE_LIMIT

InitLimiter ==
  /\ inv = [i \in AllIds |-> IdleInv]
  /\ aborted = [i \in AllIds |-> FALSE]
  /\ wsOpen = TRUE
  /\ sent = [i \in {0} \cup AllIds |-> <<>>]
  /\ now = 0
  /\ started = 0
  /\ checkpoint = NoCheckpoint
  /\ peer = NoPeer
  /\ writer = NewWriter
  /\ client = NewClient
  /\ \E side \in Peers : \E k \in 0..LimitOf(side) :
       /\ state = [NewState EXCEPT !.messageCount = k]
       /\ budget = [msgs |-> LimMsgs,
                    ws |-> IF side = "ws" THEN LimAttempts ELSE 0,
                    tg |-> IF side = "tg" THEN LimAttempts ELSE 0,
                    calls |-> SessCalls, rich |-> MaxRichTurns, window |-> MAX_TURNS_PER_PHASE,
                    menu |-> TgResponses, peer |-> 0, clock |-> LimAdvances]

NextLimiter ==
  \/ WsUserMessage
  \/ WsCancel
  \/ WsClose
  \/ TgMessage
  \/ TgCancel
  \/ TgReset
  \/ \E i \in AllIds : TgCall(i)
  \/ \E i \in AllIds : Step(i)

SpecLimiter == InitLimiter /\ [][NextLimiter]_vars

\* ───────────────────────── the checkpoint tools on their own ────────
InitCheckpoint ==
  /\ inv = [i \in AllIds |-> IdleInv]
  /\ aborted = [i \in AllIds |-> FALSE]
  /\ state = NewState
  /\ wsOpen = TRUE
  /\ sent = [i \in {0} \cup AllIds |-> <<>>]
  /\ now = 0
  /\ started = 0
  /\ checkpoint = NoCheckpoint
  /\ peer = NoPeer
  /\ writer = NewWriter
  /\ client = NewClient
  /\ budget = [msgs |-> 0, ws |-> 0, tg |-> 0, calls |-> 0, rich |-> 0, window |-> 0, menu |-> {},
               peer |-> 0, clock |-> 0]

NextCheckpoint ==
  \/ saveCheckpoint
  \/ loadCheckpoint
  \/ clearCheckpoint

SpecCheckpoint == InitCheckpoint /\ [][NextCheckpoint]_vars

\* ───────────────────────── a file left by an earlier process ────────
\* save_checkpoint is called with the input of the tool invocation as it
\* was decoded ({} after a decode failure): any member may be missing,
\* and JSON.stringify({...args, savedAt}) writes the ones that are there
OptionalKeys == {"goal", "filesTouched", "completedSteps", "nextStep", "lastResult"}
StoredArgs ==
  [goal : {Text("add login", 9)},
   acceptanceCriteria : {Text("tests pass", 10)},
   filesTouched : {<<>>, <<Text("a.ts", 4)>>},
   completedSteps : {<<>>, <<Text("plan", 4)>>},
   nextStep : {Text("write tests", 11)},
   lastResult : {Text("ok", 2)}]
StringifyPartial(args, missing, savedAt) ==
  LET Given(member) == member.key \notin missing
  IN SelectSeq(Stringify(args, savedAt), Given)

\* what CHECKPOINT_PATH may hold when the process starts
StoredFiles ==
  {NoFile, TruncatedFile}
    \cup {StringifyPartial(a, missing, Text("time", 0)) :
            a \in StoredArgs, missing \in SUBSET OptionalKeys}

InitStored ==
  /\ inv = [i \in AllIds |-> IdleInv]
  /\ aborted = [i \in AllIds |-> FALSE]
  /\ state = NewState
  /\ wsOpen = TRUE
  /\ sent = [i \in {0} \cup AllIds |-> <<>>]
  /\ now = 0
  /\ started = 0
  /\ budget = [msgs |-> 0, ws |-> 0, tg |-> 0, calls |-> 0, rich |-> 0, window |-> 0,
               menu |-> {}, peer |-> 0, clock |-> 0]
  /\ \E stored \in StoredFiles :
       checkpoint = [NoCheckpoint EXCEPT !.file = stored, !.saves = MaxSaves - 1]
  /\ peer = NoPeer
  /\ writer = NewWriter
  /\ client = NewClient

SpecStored == InitStored /\ [][NextCheckpoint]_vars

\* ───────────────────────── the stream decoder on its own ──────────────
\* One tool invocation whose input text arrives split into fragments in
\* every possible way.
RECURSIVE Splits(_, _)
Splits(s, k) ==
  IF k = 1 THEN {<<s>>}
  ELSE UNION { {<<SubSeq(s, 1, a)>> \o rest : rest \in Splits(SubSeq(s, a + 1, Len(s)), k - 1)} :
                 a \in 0..Len(s) }

DecodeResponses ==
  { Resp(<<RTool("read_file", frags)>>, "tool_use", 1000, FALSE) :
      frags \in UNION {Splits(J, MaxFragments) : J \in JsonTexts} }

InitDecode ==
  /\ \E resp \in DecodeResponses :
       inv = [i \in AllIds |->
                IF i = 1
                THEN [IdleInv EXCEPT !.pc = "streaming", !.turns = 1, !.resp = resp, !.signal = 1,
                                     !.stream = StreamOf(resp, 1), !.base = 1,
                                     !.messages = <<UserContent(Text("hi", 2), 0)>>]
                ELSE IdleInv]
  /\ aborted = [i \in AllIds |-> FALSE]
  /\ state = [NewState EXCEPT !.messageCount = 1, !.abortController = 1]
  /\ wsOpen = TRUE
  /\ sent = [i \in {0} \cup AllIds |-> <<>>]
  /\ now = 0
  /\ started = 1
  /\ checkpoint = NoCheckpoint
  /\ peer = NoPeer
  /\ writer = NewWriter
  /\ client = NewClient
  /\ budget = [msgs |-> 0, ws |-> 0, tg |-> 0, calls |-> 0, rich |-> 0, window |-> 0, menu |-> {}, peer |-> 0, clock |-> 0]

NextDecode ==
  \/ OnContentBlockStart(1)
  \/ OnContentBlockDelta(1)
  \/ OnContentBlockStop(1)

SpecDecode == InitDecode /\ [][NextDecode]_vars

\* ───────────────────────── TelegramMessageWriter ───────────────────
notWriter == <<inv, aborted, state, wsOpen, sent, started, budget, checkpoint, peer, client>>

scheduleFlush(w, t) ==
  IF w.editTimer # 0 THEN w
  ELSE LET delay == Max(0, EDIT_INTERVAL_MS - (t - w.lastEditTime))
           id == CHOOSE n \in 1..Cardinality(w.timers) + 1 : \A tm \in w.timers : tm.id # n
       IN [w EXCEPT !.editTimer = id, !.timers = @ \cup {[id |-> id, due |-> t + delay]}]

\* flush() up to its call of sendOrEdit, which reads messageId and calls
\* the bot
flush(w, t) ==
  LET pageStart == w.messagePageIndex * TELEGRAM_MAX_CHARS
      currentPage == PageSlice(w.buffer, pageStart, pageStart + TELEGRAM_MAX_CHARS)
  IN IF Length(w.buffer) = 0 \/ currentPage = <<>> THEN w
     ELSE [w EXCEPT !.flights = Append(@, [text |-> currentPage, target |-> w.messageId,
                                            plain |-> FALSE]),
                    !.lastStart = t]

\* flush() after sendOrEdit has returned
flushed(w, t) ==
  LET w1 == [w EXCEPT !.lastEditTime = t]
  IN IF Length(w1.buffer) > (w1.messagePageIndex + 1) * TELEGRAM_MAX_CHARS
     THEN scheduleFlush([w1 EXCEPT !.messagePageIndex = @ + 1, !.messageId = 0], t)
     ELSE w1

\* buffer.replace(new RegExp("`🔧 name\.\.\.`$"), "`✅ name`")
appendToolDone(buf, name) ==
  IF buf # <<>> /\ buf[Len(buf)] = RunningMarker(name)
  THEN [buf EXCEPT ![Len(buf)] = DoneMarker(name)]
  ELSE buf

\* variant: the catch of sendOrEdit throws what it does not know
CaughtRethrow(msg) ==
  IF Includes(msg, "message is not modified") THEN "return"
  ELSE IF Includes(msg, "can't parse entities") \/ Includes(msg, "Bad Request") THEN "retry"
  ELSE "throw"

\* the catch of sendOrEdit
Caught(msg) ==
  IF Includes(msg, "message is not modified") THEN "return"
  ELSE IF Includes(msg, "can't parse entities") \/ Includes(msg, "Bad Request") THEN "retry"
  ELSE "log"

Alive == ~writer.rejected
Called(w, op) == [w EXCEPT !.last = op, !.left.appends = @ - 1]
CanAppend == Alive /\ writer.finalized = 0 /\ writer.left.appends > 0

AppendText ==
  /\ CanAppend
  /\ \E len \in ChunkLens :
       writer' = scheduleFlush([Called(writer, <<"appendText">>) EXCEPT !.buffer = Append(@, Chunk(len))], now)
  /\ UNCHANGED now
  /\ UNCHANGED notWriter

AppendToolStart ==
  /\ CanAppend
  /\ \E name \in WriterTools :
       writer' = scheduleFlush([Called(writer, <<"appendToolStart", name>>)
                                 EXCEPT !.buffer = Append(@, RunningMarker(name))], now)
  /\ UNCHANGED now
  /\ UNCHANGED notWriter

AppendToolDone ==
  /\ CanAppend
  /\ \E name \in WriterTools :
       writer' = scheduleFlush([Called(writer, <<"appendToolDone", name>>)
                                 EXCEPT !.buffer = appendToolDone(@, name)], now)
  /\ UNCHANGED now
  /\ UNCHANGED notWriter

Finalize ==
  /\ Alive /\ writer.finalized < MaxFinalize
  /\ writer' = flush([writer EXCEPT !.last = <<"finalize">>, !.finalized = @ + 1, !.editTimer = 0,
                                     !.timers = {tm \in @ : tm.id # writer.editTimer}], now)
  /\ UNCHANGED now
  /\ UNCHANGED notWriter

\* the callback of setTimeout
TimerFires ==
  /\ Alive
  /\ \E tm \in writer.timers :
       /\ now >= tm.due
       /\ writer' = flush([writer EXCEPT !.last = <<"timeout">>, !.timers = @ \ {tm}, !.editTimer = 0], now)
  /\ UNCHANGED now
  /\ UNCHANGED notWriter

Without(flights, k) == SubSeq(flights, 1, k - 1) \o SubSeq(flights, k + 1, Len(flights))

\* Telegram refuses an edit that leaves the message as it is
Unchanged(w, f) == f.target # 0 /\ w.chat[f.target] = f.text

\* bot.sendMessage or bot.editMessageText of flight k resolves
CallResolves ==
  /\ Alive
  /\ \E k \in 1..Len(writer.flights) :
       LET f == writer.flights[k]
       IN /\ ~Unchanged(writer, f)
          /\ writer' = flushed([writer EXCEPT
                                   !.last = <<"resolved">>,
                                   !.flights = Without(@, k),
                                   !.chat = IF f.target = 0 THEN Append(@, f.text)
                                            ELSE [@ EXCEPT ![f.target] = f.text],
                                   !.messageId = IF f.target = 0 THEN Len(writer.chat) + 1 ELSE @],
                                now)
  /\ UNCHANGED now
  /\ UNCHANGED notWriter

\* what can go wrong with the call of flight f
Failures(w, f) ==
  IF Unchanged(w, f) THEN {NOT_MODIFIED}
  ELSE IF w.left.fails = 0 THEN {}
  ELSE IF f.plain THEN TelegramErrors \ {PARSE_ERROR} ELSE TelegramErrors

\* bot.sendMessage or bot.editMessageText of flight k rejects
CallRejects ==
  /\ Alive
  /\ \E k \in 1..Len(writer.flights) : \E msg \in Failures(writer, writer.flights[k]) :
       LET f == writer.flights[k]
           w == [writer EXCEPT !.last = <<"rejected", msg, f.plain>>,
                               !.left.fails = IF msg = NOT_MODIFIED THEN @ ELSE @ - 1]
           gone == [w EXCEPT !.flights = Without(@, k)]
       IN writer' =
            IF f.plain THEN flushed(gone, now)
            ELSE IF Caught(msg) = "return" THEN flushed(gone, now)
            ELSE IF Caught(msg) = "retry"
            THEN [w EXCEPT !.flights[k] = [f EXCEPT !.plain = TRUE, !.target = w.messageId]]
            ELSE IF Caught(msg) = "log" THEN flushed([gone EXCEPT !.logged = @ + 1], now)
            ELSE [gone EXCEPT !.rejected = TRUE]
  /\ UNCHANGED now
  /\ UNCHANGED notWriter

\* time passes
Tick ==
  /\ Alive /\ writer.left.ticks > 0
  /\ now' = now + EDIT_INTERVAL_MS
  /\ writer' = [writer EXCEPT !.last = <<"tick">>, !.left.ticks = @ - 1]
  /\ UNCHANGED notWriter

\* Date.now() is far beyond the edit interval
InitWriter ==
  /\ inv = [i \in AllIds |-> IdleInv]
  /\ aborted = [i \in AllIds |-> FALSE]
  /\ state = NewState
  /\ wsOpen = TRUE
  /\ sent = [i \in {0} \cup AllIds |-> <<>>]
  /\ now = EDIT_INTERVAL_MS
  /\ started = 0
  /\ checkpoint = NoCheckpoint
  /\ peer = NoPeer
  /\ writer = NewWriter
  /\ client = NewClient
  /\ budget = [msgs |-> 0, ws |-> 0, tg |-> 0, calls |-> 0, rich |-> 0, window |-> 0, menu |-> {},
               peer |-> 0, clock |-> 0]

NextWriter ==
  \/ AppendText
  \/ AppendToolStart
  \/ AppendToolDone
  \/ Finalize
  \/ TimerFires
  \/ CallResolves
  \/ CallRejects
  \/ Tick

SpecWriter == InitWriter /\ [][NextWriter]_vars

\* The same writer with a bot whose calls may fail.
InitFaults ==
  /\ inv = [i \in AllIds |-> IdleInv]
  /\ aborted = [i \in AllIds |-> FALSE]
  /\ state = NewState
  /\ wsOpen = TRUE
  /\ sent = [i \in {0} \cup AllIds |-> <<>>]
  /\ now = EDIT_INTERVAL_MS
  /\ started = 0
  /\ checkpoint = NoCheckpoint
  /\ peer = NoPeer
  /\ writer = [NewWriter EXCEPT !.left = [appends |-> FaultAppends, ticks |-> MaxTicks, fails |-> MaxFails]]
  /\ client = NewClient
  /\ budget = [msgs |-> 0, ws |-> 0, tg |-> 0, calls |-> 0, rich |-> 0, window |-> 0, menu |-> {},
               peer |-> 0, clock |-> 0]

SpecFaults == InitFaults /\ [][NextWriter]_vars

\* ───────────────────────── two invocations in one response ──────────
\* The events of two tool_use blocks of one response, each block's events
\* in their order and the first block started first, delivered in every
\* interleaving.
RECURSIVE Merges(_, _)
Merges(a, b) ==
  IF a = <<>> THEN {b}
  ELSE IF b = <<>> THEN {a}
  ELSE {<<Head(a)>> \o m : m \in Merges(Tail(a), b)}
       \cup {<<Head(b)>> \o m : m \in Merges(a, Tail(b))}

RouteTexts == <<J_OPEN \o J_CLOSE, <<"{", Q, "a", Q, ":", Q, "a", Q, "}">> >>
RouteResponses ==
  { Resp(<<RTool("read_file", f1), RTool("read_file", f2)>>, "tool_use", 1000, FALSE) :
      f1 \in Splits(RouteTexts[1], MaxRouteFrags), f2 \in Splits(RouteTexts[2], MaxRouteFrags) }
RouteStreams(resp) ==
  { <<Head(BlockEvents(resp.blocks[1], BlockId(1, 1)))>> \o m :
      m \in Merges(Tail(BlockEvents(resp.blocks[1], BlockId(1, 1))),
                   BlockEvents(resp.blocks[2], BlockId(1, 2))) }

InitRouting ==
  /\ \E resp \in RouteResponses : \E stream \in RouteStreams(resp) :
       inv = [i \in AllIds |->
                IF i = 1
                THEN [IdleInv EXCEPT !.pc = "streaming", !.turns = 1, !.resp = resp, !.signal = 1,
                                     !.stream = stream, !.base = 1,
                                     !.messages = <<UserContent(Text("hi", 2), 0)>>]
                ELSE IdleInv]
  /\ aborted = [i \in AllIds |-> FALSE]
  /\ state = [NewState EXCEPT !.messageCount = 1, !.abortController = 1]
  /\ wsOpen = TRUE
  /\ sent = [i \in {0} \cup AllIds |-> <<>>]
  /\ now = 0
  /\ started = 1
  /\ checkpoint = NoCheckpoint
  /\ peer = NoPeer
  /\ writer = NewWriter
  /\ client = NewClient
  /\ budget = [msgs |-> 0, ws |-> 0, tg |-> 0, calls |-> 0, rich |-> 0, window |-> 0, menu |-> {},
               peer |-> 0, clock |-> 0]

SpecRouting == InitRouting /\ [][NextDecode]_vars

\* ───────────────────────── properties ─────────────────────────────────
\* the positions of the events of a log that satisfy a test
Terminals(evs) == {k \in 1..Len(evs) : IsTerminal(evs[k])}
OfType(evs, type) == {k \in 1..Len(evs) : evs[k].type = type}
Returned(i) == inv[i].pc = "returned"

\* C1: an invocation that returns without its abort signal set has emitted
\* exactly one terminal event, and that event is the last one it emitted.
C1_OneTerminalLast ==
  \A i \in InvIds :
    Returned(i) /\ ~aborted[i] =>
      /\ Cardinality(Terminals(inv[i].events)) = 1
      /\ Terminals(inv[i].events) = {Len(inv[i].events)}

C1_Witness ==
  \E i \in InvIds :
    /\ Returned(i) /\ ~aborted[i]
    /\ OfType(inv[i].events, "tool_done") # {}
    /\ OfType(inv[i].events, "text_chunk") # {}
    /\ inv[i].events[Len(inv[i].events)].type = "complete"

\* C2: on the WebSocket connection, a message that started a turn leads to
\* a terminal event sent to the client, unless the turn's signal was set
\* or the connection was closed; a throw of the loop is answered by error.
Resolved(i) == \E k \in 1..Len(sent[i]) : sent[i][k] \in TerminalTypes
C2_TurnResolved ==
  \A i \in InvIds : (inv[i].pc # "idle") ~> (Resolved(i) \/ aborted[i] \/ ~wsOpen)

C2_Witness ==
  \E i \in InvIds :
    /\ inv[i].pc = "threw" /\ ~aborted[i] /\ wsOpen
    /\ sent[i] # <<>> /\ sent[i][Len(sent[i])] = "error"

\* C3: an invocation whose abort signal was set while it was in progress
\* returns the history accumulated so far and emits no terminal event.
C3_CancelledIsSilent ==
  \A i \in InvIds :
    Returned(i) /\ aborted[i] =>
      /\ Terminals(inv[i].events) = {}
      /\ inv[i].result = inv[i].messages

\* C4: once the running total of input tokens exceeds the ceiling, the
\* invocation has returned with exactly one needs_continue, no complete and
\* no error, and has executed no tool of the response that crossed it.
TurnOf(id) == id \div 10
C4_CutoffHandsOff ==
  \A i \in InvIds :
    inv[i].cumulativeInputTokens > TOKEN_CUTOFF_THRESHOLD =>
      /\ Returned(i)
      /\ Cardinality(OfType(inv[i].events, "needs_continue")) = 1
      /\ OfType(inv[i].events, "complete") = {}
      /\ OfType(inv[i].events, "error") = {}
      /\ \A c \in 1..Len(inv[i].calls) : TurnOf(inv[i].calls[c].id) # inv[i].turns
      /\ inv[i].result = Append(inv[i].messages, Msg("assistant", NoText, inv[i].assistantContent))

\* the total crossed the ceiling on a response whose own count is below it
\* and whose finish reason is tool_use
C4_Witness ==
  \E i \in InvIds :
    /\ inv[i].cumulativeInputTokens > TOKEN_CUTOFF_THRESHOLD
    /\ inv[i].resp.input_tokens <= TOKEN_CUTOFF_THRESHOLD
    /\ inv[i].resp.stop_reason = "tool_use"
    /\ Returned(i)

\* C5: when the turn ceiling is reached without a terminal condition the
\* invocation emits needs_continue, never error, and returns its history.
CeilingReached(i) ==
  /\ Returned(i) /\ ~aborted[i]
  /\ inv[i].turns = MAX_TURNS_PER_PHASE
  /\ inv[i].cumulativeInputTokens <= TOKEN_CUTOFF_THRESHOLD
  /\ inv[i].resp.hasStop => inv[i].resp.stop_reason = "tool_use"

C6_SequentialInOrder ==
  \A i \in InvIds :
    LET evs == inv[i].events
        S == OfType(evs, "tool_start")
        D == OfType(evs, "tool_done")
        calls == inv[i].calls
    IN /\ Cardinality(inv[i].inflight) <= 1
       /\ \A d \in D : \E st \in S : st < d /\ evs[st].id = evs[d].id
       /\ \A d1, d2 \in D :
            d1 < d2 =>
              \A s1 \in S :
                evs[s1].id = evs[d1].id =>
                  \A s2 \in S : evs[s2].id = evs[d2].id => s1 < s2
       /\ \A c1, c2 \in 1..Len(calls) : c1 < c2 => calls[c1].id < calls[c2].id

C6_Witness ==
  \E i \in InvIds :
    \E d1, d2 \in OfType(inv[i].events, "tool_done") :
      /\ d1 < d2
      /\ TurnOf(inv[i].events[d1].id) = TurnOf(inv[i].events[d2].id)
      /\ \E c1, c2 \in 1..Len(inv[i].calls) :
           /\ inv[i].calls[c1].id = inv[i].events[d1].id
           /\ inv[i].calls[c2].id = inv[i].events[d2].id

\* the tool results the message list holds
HistoryResults(messages) ==
  {messages[m].blocks[b] : <<m, b>> \in
     {<<m, b>> \in (1..Len(messages)) \X (1..4) :
        b <= Len(messages[m].blocks) /\ messages[m].blocks[b].type = "tool_result"}}

\* the messages invocation r has appended to the history it was given
Own(r) == SubSeq(r.messages, r.base + 1, Len(r.messages))

FullText(s) == IF s.kind = "ok" THEN s.text ELSE ToolResultText(s)
FailureText(s) == Text("Error executing tool: ", 22 + s.text.len)
Threw(i) ==
  /\ Len(inv'[i].settled) = Len(inv[i].settled) + 1
  /\ inv'[i].settled[Len(inv'[i].settled)].kind = "throw"
LaterHandler(r) ==
  \E k \in (r.blockIdx + 1)..Len(r.assistantContent) :
    r.assistantContent[k].type = "tool_use" /\ HasHandler(r.assistantContent[k].name)
C8_Step ==
  \A i \in InvIds :
    /\ Threw(i) =>
         LET s == inv'[i].settled[Len(inv'[i].settled)]
             evs == inv'[i].events
         IN /\ inv'[i].pc \in {"await_handler", "streaming"}
            /\ evs[Len(inv[i].events) + 1] = Ev("tool_done", inv[i].assistantContent[inv[i].blockIdx].name,
                                                s.id, Slice(FailureText(s), PREVIEW_LEN))
            /\ OfType(evs, "error") = {}
            /\ \E b \in HistoryResults(<<Msg("user", NoText, inv'[i].toolResults)>>) \cup
                        HistoryResults(Own(inv'[i])) :
                 b.id = s.id /\ b.text = FailureText(s)
            /\ LaterHandler(inv[i]) /\ ~aborted[i] =>
                 inv'[i].pc = "await_handler" /\ inv'[i].blockIdx > inv[i].blockIdx
            /\ inv'[i].pc = "streaming" =>
                 \E b \in HistoryResults(Own(inv'[i])) : b.id = s.id /\ b.text = FailureText(s)
    /\ ( /\ inv[i].pc = "streaming" /\ inv[i].stream = <<>> /\ inv'[i] # inv[i]
         /\ ~aborted[i] /\ inv[i].turns < MAX_TURNS_PER_PHASE )
       => inv'[i].pc = "streaming" /\ inv'[i].turns = inv[i].turns + 1
                                  /\ inv'[i].messages = inv[i].messages
C8_ThrowIsResult == [][C8_Step]_vars

C8_Witness ==
  \E i \in InvIds :
    \E s \in 1..Len(inv[i].settled) :
      /\ inv[i].settled[s].kind = "throw"
      /\ s < Len(inv[i].settled)
      /\ TurnOf(inv[i].settled[s + 1].id) = TurnOf(inv[i].settled[s].id)
      /\ inv[i].turns > TurnOf(inv[i].settled[s].id)
      /\ inv[i].pc = "streaming"

\* C9: when the fragments of a tool invocation are not JSON, the tool is
\* invoked with the empty object.
C9_MalformedRunsEmpty ==
  \A i \in InvIds :
    inv[i].pc = "await_handler" =>
      LET block == inv[i].assistantContent[inv[i].blockIdx]
      IN block.raw # <<>> /\ ~JSONParse(block.raw).ok => inv[i].handlerInput = EmptyObject

\* C10: however a JSON text is split into fragments, the fragments are
\* joined in arrival order and the input parsed at block-stop is the parse
\* of the text.
Delivered(r) ==
  LET frags == r.resp.blocks[1].frags
      left == Cardinality(OfType(r.stream, "content_block_delta"))
  IN Concat(SubSeq(frags, 1, Len(frags) - left))
C10_SplitInvariant ==
  LET r == inv[1]
      J == Concat(r.resp.blocks[1].frags)
  IN r.toolUseBlocks # <<>> =>
       /\ r.toolUseBlocks[1].rawInput = Delivered(r)
       /\ r.stream = <<>> /\ JSONParse(J).ok => r.toolUseBlocks[1].input = JSONParse(J).val

C10_Witness ==
  LET r == inv[1]
      frags == r.resp.blocks[1].frags
  IN /\ r.stream = <<>> /\ r.toolUseBlocks # <<>>
     /\ Cardinality({f \in 1..Len(frags) : frags[f] # <<>>}) >= 2
     /\ JSONParse(Concat(frags)).ok
     /\ r.toolUseBlocks[1].input = JObj(<< << <<"a">>, JNum(11) >> >>)

\* C11: when the model stream of a turn throws, the client of the session
\* (an open WebSocket connection, or the Telegram chat) is sent exactly
\* one error for that turn, and the invocation makes no further model call.
StreamFailed(i) == inv[i].pc = "threw" /\ inv[i].error \in ErrorMessages
ErrorsSent(i) == Cardinality({k \in 1..Len(sent[i]) : sent[i][k] = "error"})
C11_ThrowSendsOneError ==
  \A i \in AllIds :
    StreamFailed(i) /\ (inv[i].caller = "ws" => wsOpen) =>
      /\ ErrorsSent(i) = 1
      /\ inv[i].stream = <<>>

\* an invocation between its call and its return or throw
Running(i) == inv[i].pc \in {"streaming", "await_final", "await_handler"}

\* the conversationHistory argument invocation i was called with
InputHistory(i) == SubSeq(inv[i].messages, 1, inv[i].base - 1)

\* C12: after a turn that ended with a thrown error, the session's handle is
\* cleared and its stored history is one the model call accepts.
C12_UsableAfterError ==
  \A i \in SessIds :
    inv[i].pc = "threw" /\ i = started =>
      /\ state.abortController = 0
      /\ Acceptable(state.conversationHistory)

\* C13: at most one invocation of a session is between its call and its
\* return.
C13_OneAtATime == Cardinality({i \in SessIds : Running(i)}) <= 1

\* C14: when every invocation of the session has returned, the stored
\* history is the one the most recently started invocation returned.
C14_LatestOwnsHistory ==
  started > 0 /\ (\A i \in 1..started : Returned(i)) =>
    state.conversationHistory = inv[started].result

\* C15: on an open connection the handle is set exactly when a turn is
\* running whose signal is not set.
C15_HandleIffInFlight ==
  wsOpen => (state.abortController # 0 <=> \E i \in SessIds : Running(i) /\ ~aborted[i])

\* C16: the turn after a cancelled turn is called with the history the
\* cancelled turn was called with.
C16_FreshAfterCancel ==
  \A i \in SessIds :
    i > 1 /\ inv[i].pc # "idle" /\ aborted[i - 1] => InputHistory(i) = InputHistory(i - 1)

\* C17: once the signal is set while a handler is awaited, the invocation
\* emits no further event and the handler's result does not reach the
\* history it returns.
C17_Step ==
  \A i \in AllIds :
    inv[i].pc = "await_handler" /\ aborted[i] =>
      /\ inv'[i].events = inv[i].events
      /\ Returned(i)' =>
           \A b \in HistoryResults(inv'[i].result) :
             b.id # inv[i].assistantContent[inv[i].blockIdx].id
C17_AbortDiscards == [][C17_Step]_vars

\* an attempt the limiter of the session counts: any message of the
\* WebSocket connection, a task sent to the Telegram chat
WsAttempt == budget'.ws = budget.ws - 1
TgAttempt == budget'.tg = budget.tg - 1 /\ budget'.msgs = budget.msgs - 1
\* the step sends the rate-limit error or notice and nothing else happens
Rejected ==
  /\ sent' = [sent EXCEPT ![0] = Append(@, RATE_LIMITED)]
  /\ started' = started /\ inv' = inv /\ aborted' = aborted
  /\ state'.abortController = state.abortController
  /\ state'.conversationHistory = state.conversationHistory

\* C18: once 10 attempts have been counted in the current window of a
\* WebSocket connection or of a Telegram chat, every further attempt inside
\* that window is rejected: the rate-limit error or notice is sent and no
\* agent turn is started.
C18_Step ==
  /\ WsAttempt /\ state.messageCount >= WS_MESSAGE_LIMIT
       /\ now' - state.windowStart <= WS_MESSAGE_WINDOW_MS => Rejected
  /\ TgAttempt /\ state.messageCount >= TG_MESSAGE_LIMIT
       /\ now' - state.windowStart <= TG_MESSAGE_WINDOW_MS => Rejected
C18_CeilingRejects == [][C18_Step]_vars

\* a chat whose eleventh task of the window got the notice and no turn
C18_Witness ==
  /\ budget.tg < LimAttempts /\ budget.msgs < LimMsgs
  /\ state.messageCount = TG_MESSAGE_LIMIT + 1
  /\ sent[0] = <<RATE_LIMITED>>
  /\ started = 0

\* C19: an attempt that arrives more than a window after the window's start
\* is accepted, even after an exhausted window, and leaves count = 1 and
\* window-start = now; an attempt that arrives earlier leaves the window's
\* start alone and adds one to the count.
Windowed(attempt, window) ==
  attempt =>
    IF now' - state.windowStart > window
    THEN /\ state'.messageCount = 1
         /\ state'.windowStart = now'
         /\ RATE_LIMITED \notin {sent'[0][k] : k \in Len(sent[0]) + 1..Len(sent'[0])}
    ELSE /\ state'.windowStart = state.windowStart
         /\ state'.messageCount = state.messageCount + 1
C19_Step ==
  /\ Windowed(WsAttempt, WS_MESSAGE_WINDOW_MS)
  /\ Windowed(TgAttempt, TG_MESSAGE_WINDOW_MS)
C19_WindowReset == [][C19_Step]_vars

\* a connection that was sent the rate-limit error and whose next user
\* message, a window and a millisecond later, started a turn
C19_Witness ==
  /\ budget.ws < LimAttempts
  /\ RATE_LIMITED \in {sent[0][k] : k \in 1..Len(sent[0])}
  /\ state.messageCount = 1 /\ state.windowStart = now
  /\ now > WS_MESSAGE_WINDOW_MS
  /\ started = 1

\* the line of a label in the text load_checkpoint returned
LoadedValue(label) ==
  LET at == {k \in 1..Len(checkpoint.returned.lines) : checkpoint.returned.lines[k].label = label}
  IN IF at = {} THEN Undefined ELSE checkpoint.returned.lines[CHOOSE k \in at : TRUE].value

\* C20: what load_checkpoint returns after a save carries every field of
\* the saved record with the value that was saved (only savedAt is new).
C20_RoundTrip ==
  checkpoint.returned.kind = "found" =>
    /\ LoadedValue("Goal") = checkpoint.saved.goal
    /\ LoadedValue("Acceptance Criteria") = checkpoint.saved.acceptanceCriteria
    /\ LoadedValue("NEXT STEP TO EXECUTE") = checkpoint.saved.nextStep
    /\ LoadedValue("Last Result") = checkpoint.saved.lastResult
    /\ checkpoint.saved.completedSteps # <<>> =>
         LoadedValue("Completed Steps") = Join(checkpoint.saved.completedSteps, Text(" -> ", 3))
    /\ checkpoint.saved.filesTouched # <<>> =>
         LoadedValue("Files Touched So Far") = Join(checkpoint.saved.filesTouched, Text(", ", 2))

\* what clear_checkpoint and load_checkpoint return
ClearKinds == {"cleared", "already clean"}
LoadKinds == {"fresh start", "found"}

\* C21: clear_checkpoint deletes the file when there is one and changes
\* nothing when there is none, and a load_checkpoint that follows a
\* clear_checkpoint returns the fresh-start text.
C21_Step ==
  /\ checkpoint'.returned.kind \in ClearKinds =>
       /\ checkpoint'.file = NoFile
       /\ checkpoint'.saved = checkpoint.saved /\ checkpoint'.saves = checkpoint.saves
       /\ checkpoint'.returned.kind = IF checkpoint.file = NoFile THEN "already clean" ELSE "cleared"
  /\ checkpoint.returned.kind \in ClearKinds /\ checkpoint'.returned.kind \in LoadKinds =>
       /\ checkpoint'.returned = ToolText("fresh start", <<>>)
       /\ checkpoint'.file = NoFile
C25_ReturnedIsAnswered ==
  \A i \in InvIds :
    Returned(i) =>
      \A k \in 1..Len(inv[i].result) :
        LET m == inv[i].result[k]
        IN m.role = "assistant" /\ ToolUseIds(m) # {} =>
             /\ k < Len(inv[i].result)
             /\ ToolUseIds(m) \subseteq ToolResultIds(inv[i].result[k + 1])

\* the phase of invocation i was ended by the token ceiling
CutOff(i) ==
  /\ Returned(i)
  /\ inv[i].cumulativeInputTokens > TOKEN_CUTOFF_THRESHOLD
  /\ inv[i].events # <<>>
  /\ inv[i].events[Len(inv[i].events)].type = "needs_continue"

\* C27: the phase that follows a forced handoff is not called with the
\* turns of the phase that was cut off.
C27_FreshAfterHandoff ==
  \A i \in SessIds :
    i > 1 /\ inv[i].pc # "idle" /\ CutOff(i - 1) /\ ~aborted[i - 1] =>
      \A k \in 1..Len(InputHistory(i)) :
        \A j \in inv[i - 1].base..Len(inv[i - 1].result) :
          InputHistory(i)[k] # inv[i - 1].result[j]

\* the fragments of block k of the response that have arrived
Arrived(r, k) ==
  LET frags == r.resp.blocks[k].frags
      left == Cardinality({e \in 1..Len(r.stream) :
                             /\ r.stream[e].type = "content_block_delta"
                             /\ r.stream[e].id = BlockId(r.turns, k)})
  IN Concat(SubSeq(frags, 1, Len(frags) - left))

\* C26: with several invocations open in one response, each invocation
\* has collected exactly its own fragments in arrival order, and once the
\* stream is over its input is the parse of its own text.
C26_RoutedByPosition ==
  LET r == inv[1]
  IN \A k \in 1..Len(r.toolUseBlocks) :
       /\ r.toolUseBlocks[k].rawInput = Arrived(r, k)
       /\ r.stream = <<>> =>
            r.toolUseBlocks[k].input = JSONParse(Concat(r.resp.blocks[k].frags)).val

\* the client's {type: 'continue'} is taken by the server in this step
ContinueTaken ==
  /\ started > 0 /\ sent[started] # <<>>
  /\ sent[started][Len(sent[started])] = "needs_continue"
  /\ budget'.ws = budget.ws - 1
  /\ state'.messageCount <= WS_MESSAGE_LIMIT
  /\ sent'[0] = sent[0]
  /\ wsOpen'

\* C24: a continue frame received after needs_continue starts a new phase
\* of the session on its stored history.
C24_Step == ContinueTaken => started' = started + 1 /\ inv'[started'].pc # "idle"

C24_ContinueStartsPhase == [][C24_Step]_vars

\* a step of the second connection: a frame it received, its close, or a
\* step of a turn one of its messages started
PeerStep ==
  \/ budget'.peer # budget.peer
  \/ peer' # peer
  \/ \E i \in AllIds : inv'[i] # inv[i] /\ inv'[i].caller = "peer"

\* C23: no message, cancel, close or turn of another connection changes
\* the stored history of a connection, its controller, its turns or what
\* it was sent; a turn is called with the history of its own connection;
\* and the events of a turn go to the transport of its own connection.
C23_Step ==
  /\ PeerStep =>
       /\ state' = state /\ sent' = sent /\ wsOpen' = wsOpen
       /\ \A i \in AllIds : inv[i].pc # "idle" /\ inv[i].caller = "ws" =>
            inv'[i] = inv[i] /\ aborted'[i] = aborted[i]
  /\ \A i \in AllIds : inv[i].pc = "idle" /\ inv'[i].pc # "idle" =>
       SubSeq(inv'[i].messages, 1, inv'[i].base - 1) =
         IF inv'[i].caller = "peer" THEN peer.state.conversationHistory ELSE state.conversationHistory
  /\ \A i \in AllIds : inv'[i].pc # "idle" =>
       IF inv'[i].caller = "peer" THEN sent'[i] = <<>> ELSE peer'.sent[i] = <<>>

C23_NeverShared == [][C23_Step]_vars

\* the second connection's turn was cancelled and has handed back its
\* history while the turn of the first connection is still running and
\* has sent events
C23_Witness ==
  \E i, j \in AllIds :
    /\ inv[i].caller = "ws" /\ inv[i].pc \notin {"idle", "returned", "threw"}
    /\ sent[i] # <<>> /\ ~aborted[i]
    /\ inv[j].caller = "peer" /\ inv[j].pc = "returned" /\ aborted[j]
    /\ peer.sent[j] # <<>>
    /\ peer.state.conversationHistory # <<>> /\ state.conversationHistory = <<>>

\* appends have stopped for now and every flush that was scheduled or
\* started has run
Quiescent == writer.buffer # <<>> /\ writer.timers = {} /\ writer.flights = <<>>

\* the contents of the messages of the chat, one after the other
RECURSIVE Flat(_)
Flat(chat) == IF chat = <<>> THEN <<>> ELSE Head(chat) \o Flat(Tail(chat))

\* C22: once the flushes have run, the messages of the chat hold the
\* buffer, page after page, nothing lost and nothing twice: one message
\* for each page the buffer reaches into, so two page transitions and
\* three messages for a buffer longer than two pages.
C22_PagesPreserveBuffer ==
  Quiescent =>
    /\ Joined(Flat(writer.chat)) = PageSlice(writer.buffer, 0, Length(writer.buffer))
    /\ writer.messagePageIndex = (Length(writer.buffer) - 1) \div TELEGRAM_MAX_CHARS
    /\ Len(writer.chat) = writer.messagePageIndex + 1

\* C28: at most one flush timer is pending, and a flush calls sendOrEdit
\* no sooner than the edit interval after the flush before it did.
C28_Step ==
  /\ Cardinality(writer'.timers) <= 1
  /\ Len(writer'.flights) > Len(writer.flights) /\ writer.lastStart >= 0 =>
       now' - writer.lastStart >= EDIT_INTERVAL_MS

C28_FlushesApart == [][C28_Step]_vars

\* C29: appendToolDone(T) puts the done marker in the place of the first
\* running marker of T in the buffer, wherever it stands, and leaves a
\* buffer without one as it is.
C29_Step ==
  writer'.last[1] = "appendToolDone" =>
    LET name == writer'.last[2]
        at == {k \in 1..Len(writer.buffer) : writer.buffer[k] = RunningMarker(name)}
    IN writer'.buffer =
         IF at = {} THEN writer.buffer
         ELSE [writer.buffer EXCEPT ![CHOOSE k \in at : \A j \in at : k <= j] = DoneMarker(name)]

C29_ReplacedAnywhere == [][C29_Step]_vars

\* C30: a Telegram call of the writer that fails never makes a flush
\* reject: unchanged content is passed over, a Markdown call that Telegram
\* refuses is made again once as plain text, the failure of that second
\* call is passed over, and any other failure is logged; in each case the
\* writer takes the next event.
C30_Step ==
  /\ ~writer'.rejected
  /\ writer'.last[1] = "rejected" =>
       LET msg == writer'.last[2]
           plain == writer'.last[3]
           Plain(w) == Cardinality({k \in 1..Len(w.flights) : w.flights[k].plain})
           over == Len(writer'.flights) = Len(writer.flights) - 1
       IN /\ writer'.buffer = writer.buffer /\ writer'.chat = writer.chat
          /\ IF plain \/ msg = NOT_MODIFIED
             THEN over /\ writer'.logged = writer.logged
             ELSE IF msg = PARSE_ERROR
             THEN /\ Len(writer'.flights) = Len(writer.flights)
                  /\ Plain(writer') = Plain(writer) + 1
                  /\ writer'.logged = writer.logged
             ELSE over /\ writer'.logged = writer.logged + 1

ResultTextOf(r, ev) ==
  LET at == {s \in 1..Len(r.settled) : r.settled[s].id = ev.id}
  IN IF at = {} THEN UnknownToolText ELSE FullText(r.settled[CHOOSE s \in at : TRUE])

\* the tool results invocation r holds for the model: the ones of the
\* batch it is running and the ones in the turns it has appended
ResultsHeld(r) ==
  {r.toolResults[k] : k \in 1..Len(r.toolResults)} \cup HistoryResults(Own(r))

\* C31: the text of a tool_done event is the first 500 characters of the
\* tool's result text, and the tool result kept for the model under the
\* same invocation id is the whole text.
C31_PreviewAndWhole ==
  \A i \in InvIds :
    \A e \in OfType(inv[i].events, "tool_done") :
      LET ev == inv[i].events[e]
          whole == ResultTextOf(inv[i], ev)
      IN /\ ev.text = Slice(whole, PREVIEW_LEN)
         /\ ev.text.len <= PREVIEW_LEN
         /\ \E b \in ResultsHeld(inv[i]) : b.id = ev.id /\ b.text = whole

\* a result longer than the preview was cut in the event and is whole in
\* the history of the model call that follows
C31_Witness ==
  \E i \in InvIds :
    /\ inv[i].pc = "streaming"
    /\ \E e \in OfType(inv[i].events, "tool_done") :
         /\ inv[i].events[e].text.len = PREVIEW_LEN
         /\ \E b \in HistoryResults(Own(inv[i])) :
              b.id = inv[i].events[e].id /\ b.text.len > PREVIEW_LEN

\* C32: the checkpoint store is one slot: the file holds the members of
\* one record, those of the last write, and a load after two writes
\* returns the second record with nothing of the first (a last result
\* only the first one had is not in the text).
C32_SingleSlot ==
  /\ checkpoint.file # NoFile =>
       /\ \A j, k \in 1..Len(checkpoint.file) :
            checkpoint.file[j].key = checkpoint.file[k].key => j = k
       /\ \A k \in 1..Len(checkpoint.file) :
            checkpoint.file[k].key # "savedAt" =>
              checkpoint.file[k].value = checkpoint.saved[checkpoint.file[k].key]
  /\ checkpoint.returned.kind = "found" =>
       /\ LoadedValue("Goal") = checkpoint.saved.goal
       /\ LoadedValue("NEXT STEP TO EXECUTE") = checkpoint.saved.nextStep
       /\ LoadedValue("Completed Steps") =
            (IF checkpoint.saved.completedSteps = <<>> THEN Text("none yet", 8)
             ELSE Join(checkpoint.saved.completedSteps, Text(" -> ", 3)))
       /\ LoadedValue("Files Touched So Far") =
            (IF checkpoint.saved.filesTouched = <<>> THEN Text("none", 4)
             ELSE Join(checkpoint.saved.filesTouched, Text(", ", 2)))
       /\ checkpoint.saved.lastResult = Undefined => LoadedValue("Last Result") = Undefined

\* two records were written, the first with a last result and other files
\* than the second, and the load that followed found the second
C32_Witness ==
  /\ checkpoint.prior # Undefined /\ checkpoint.saved # Undefined
  /\ checkpoint.prior.lastResult # Undefined /\ checkpoint.saved.lastResult = Undefined
  /\ checkpoint.prior.filesTouched # checkpoint.saved.filesTouched
  /\ checkpoint.returned.kind = "found"
  /\ LoadedValue("Files Touched So Far") = Text("none", 4)

\* the members a checkpoint record must have
RequiredKeys ==
  {"goal", "acceptanceCriteria", "filesTouched", "completedSteps", "nextStep", "savedAt"}
LacksRequired(file) == \E key \in RequiredKeys : ~Has(file, key)
LoadReturned(kind) == kind \in {"fresh start", "found", "load error"}

\* C33: load_checkpoint returns a text whatever the file holds: the
\* fresh-start text when there is no file, and a text that treats the
\* checkpoint as absent (never the found text) when the file cannot be
\* parsed or lacks a required member; it leaves the file as it is.
C33_Step ==
  LoadReturned(checkpoint'.returned.kind) /\ ~LoadReturned(checkpoint.returned.kind) =>
    /\ checkpoint'.file = checkpoint.file
    /\ checkpoint.file = NoFile => checkpoint'.returned = ToolText("fresh start", <<>>)
    /\ checkpoint.file # NoFile
         /\ (ParseCheckpoint(checkpoint.file) = SyntaxError \/ LacksRequired(checkpoint.file))
         => checkpoint'.returned.kind # "found"
C33_LoadTreatsBrokenAsAbsent == [][C33_Step]_vars

\* the events a step adds to those of invocation i
Added(i) == SubSeq(inv'[i].events, Len(inv[i].events) + 1, Len(inv'[i].events))

\* C34: a heartbeat is emitted only while a tool handler of the invocation
\* has started and not settled (its tool_done is still to come), with the
\* abort signal not set, and before every terminal event and the return.
C34_Step ==
  \A i \in InvIds :
    OfType(Added(i), "heartbeat") # {} =>
      /\ Len(inv[i].calls) = Len(inv[i].settled) + 1
      /\ Cardinality(OfType(inv[i].events, "tool_done"))
           < Cardinality(OfType(inv[i].events, "tool_start"))
      /\ OfType(Added(i), "tool_done") = {} /\ Len(inv'[i].settled) = Len(inv[i].settled)
      /\ ~aborted[inv[i].signal]
      /\ Terminals(inv[i].events) = {}
      /\ inv[i].pc \notin {"idle", "returned", "threw"}
Prefix(a, b) == Len(a) <= Len(b) /\ SubSeq(b, 1, Len(a)) = a

\* C35: runAgent starts from the caller's history followed by the new user
\* turn, only appends turns to it, returns a history that begins with it,
\* and leaves the caller's history as it was: the stored history changes
\* only when the handler assigns a returned one.
C35_Step ==
  /\ \A i \in AllIds :
       /\ inv[i].pc = "idle" /\ inv'[i].pc # "idle" =>
            /\ Prefix(Append(StateOf(i).conversationHistory, inv'[i].messages[inv'[i].base]),
                      inv'[i].messages)
            /\ inv'[i].base = Len(StateOf(i).conversationHistory) + 1
            /\ inv'[i].messages[inv'[i].base].role = "user"
       /\ inv[i].pc # "idle" =>
            /\ Prefix(inv[i].messages, inv'[i].messages)
            /\ inv'[i].base = inv[i].base
            /\ inv'[i].pc = "returned" => Prefix(inv'[i].messages, inv'[i].result)
  /\ state'.conversationHistory # state.conversationHistory =>
       \E i \in AllIds :
         /\ inv[i].pc # "returned" /\ inv'[i].pc = "returned"
         /\ state'.conversationHistory = inv'[i].result
C35_HistoryOnlyGrows == [][C35_Step]_vars

\* a second turn of the session returned a history that begins with the
\* turns of the first and its own user turn, after a batch of tools
C35_Witness ==
  \E i \in AllIds :
    /\ Returned(i) /\ inv[i].base > 1
    /\ Len(inv[i].result) > inv[i].base + 1
    /\ inv[i].settled # <<>>
    /\ state.conversationHistory = inv[i].result

\* an invocation is over: runAgent returned or threw
Over(i) == inv[i].pc \in {"returned", "threw"}

\* C36: an invocation makes at most MAX_TURNS_PER_PHASE model calls, and
\* once started it returns or throws, also when the stream of a call ends
\* without message_stop (the loop goes round and the call is counted).
C36_BoundedAndOver ==
  \A i \in InvIds :
    /\ [](inv[i].turns <= MAX_TURNS_PER_PHASE)
    /\ (inv[i].pc # "idle") ~> Over(i)

\* the ceiling was reached by a call whose stream ended without message_stop
C36_Witness ==
  \E i \in InvIds :
    /\ Returned(i) /\ ~aborted[i]
    /\ inv[i].turns = MAX_TURNS_PER_PHASE
    /\ ~inv[i].resp.hasStop
    /\ inv[i].events # <<>> /\ inv[i].events[Len(inv[i].events)].type = "needs_continue"

\* a {type: 'cancel'} frame is handled: a frame of the connection that is
\* not a user message
CancelFrame == budget'.ws = budget.ws - 1 /\ budget'.msgs = budget.msgs

\* C37: a cancel frame that arrives while a turn of the connection is in
\* flight sets that turn's abort signal, however many frames the
\* connection has sent in the current window.
C37_Step ==
  CancelFrame /\ state.abortController # 0 /\ Running(state.abortController) =>
    aborted'[state.abortController]
C37_CancelAlwaysAborts == [][C37_Step]_vars

\* the pages the buffer reaches into
Pages(buf) == IF buf = <<>> THEN 0 ELSE (Length(buf) - 1) \div TELEGRAM_MAX_CHARS + 1

\* C38: at most one call of sendOrEdit is in progress for the writer, no
\* second sendMessage is started while one is in progress, and the chat
\* holds at most one message for each page of the buffer.
C38_OneFlushOneMessage ==
  /\ Len(writer.flights) <= 1
  /\ Cardinality({f \in 1..Len(writer.flights) : writer.flights[f].target = 0}) <= 1
  /\ Len(writer.chat) <= Pages(writer.buffer)

\* C39: from the user's cancel until their next message the web client
\* sends no continue frame and does not go back to streaming, whatever
\* events of the cancelled turn still arrive.
C39_Step ==
  client.cancelled /\ client'.cancelled =>
    /\ ~client'.isStreaming
    /\ client'.last # "continue"
C39_CancelledStaysIdle == [][C39_Step]_vars

====
